---------------------------- MODULE Spec2Model ----------------------------
(***************************************************************************)
(* A model of the pico-nrf24 driver (src/lib/nrf24l01/nrf24_driver.c): the *)
(* driver's global nrf_driver struct, the CE/CSN lines, the SPI peripheral *)
(* and the NRF24L01 chip on the other end of the SPI bus.                  *)
(*                                                                         *)
(* Every driver function is an operator on a machine record m that holds   *)
(* the driver struct, the chip, the pins, the command trace of the call    *)
(* in progress and the value the last callee returned (m.ret).  A public   *)
(* operation is one action that applies the operator of its function to    *)
(* the current state; nrf_driver_send_packet alone is split at its status  *)
(* polls, because the chip acts between two polls.                         *)
(***************************************************************************)
EXTENDS Integers, Sequences, FiniteSets

(***************************************************************************)
(* Bounds of the model.                                                    *)
(***************************************************************************)
\* at most this many SPI transfers of one public call may fail
MaxFail == 1
\* at most this many status polls of one send find no interrupt bit set
MaxPolls == 2
\* depth of the chip's TX FIFO that the model tracks
MaxTxFifo == 1
\* depth of the chip's RX FIFO that the model tracks
MaxRxFifo == 1

(***************************************************************************)
(* fn_status_t, as the driver's comments give its values.                  *)
(***************************************************************************)
ERROR == 0
PIN_MNGR_OK == 1
SPI_MNGR_OK == 2
NRF_MNGR_OK == 3

\* spi_instance_t of spi_manager.h
SPI_0 == 0
SPI_1 == 1

\* internal_status_t of error_manager.h, as spi_manager.c returns it
OK == 0
SPI_FAIL == 7

\* fn_status_irq_t (internal_status_irq_t)
NONE_ASSERTED == 0
RX_DR_ASSERTED == 1
TX_DS_ASSERTED == 2
MAX_RT_ASSERTED == 3

\* bit_set_t, number_of_bytes_t, data_pipe_t
SET_BIT == 1
ZERO_BYTES == 0
ONE_BYTE == 1
TWO_BYTES == 2
FIVE_BYTES == 5
MAX_BYTES == 32
DATA_PIPE_0 == 0
DATA_PIPE_1 == 1
DATA_PIPE_2 == 2
DATA_PIPE_5 == 5
ALL_DATA_PIPES == 6

\* register_commands_t, payload_commands_t, fifo_commands_t
R_REGISTER == 0
W_REGISTER == 32
NOP == 255
R_RX_PL_WID == 96
R_RX_PAYLOAD == 97
W_TX_PAYLOAD == 160
FLUSH_TX == 225
FLUSH_RX == 226

\* register_map_t
CONFIG == 0
EN_AA == 1
EN_RXADDR == 2
SETUP_AW == 3
SETUP_RETR == 4
RF_CH == 5
RF_SETUP == 6
STATUS == 7
RX_ADDR_P0 == 10
RX_ADDR_P1 == 11
RX_ADDR_P2 == 12
RX_ADDR_P3 == 13
RX_ADDR_P4 == 14
RX_ADDR_P5 == 15
TX_ADDR == 16
RX_PW_P0 == 17
DYNPD == 28
FEATURE == 29

\* bitwise_masks_t
RF_SETUP_RF_PWR_MASK == 6
STATUS_RX_P_NO_MASK == 7
REGISTER_MASK == 31
RF_SETUP_RF_DR_MASK == 40
STATUS_INTERRUPT_MASK == 112

\* bit mnemonics
CONFIG_PRIM_RX == 0
CONFIG_PWR_UP == 1
STATUS_RX_P_NO == 1
STATUS_MAX_RT == 4
STATUS_TX_DS == 5
STATUS_RX_DR == 6
FEATURE_EN_DYN_ACK == 0
FEATURE_EN_DPL == 2

\* settings enumerations
ENAA_ALL == 63
AW_3_BYTES == 1
AW_4_BYTES == 2
AW_5_BYTES == 3
ARD_250US == 0
ARD_500US == 16
ARD_750US == 32
ARD_1000US == 48
ARC_10RT == 10
ARC_15RT == 15
RF_DR_1MBPS == 0
RF_DR_2MBPS == 8
RF_DR_250KBPS == 32
RF_PWR_NEG_18DBM == 0
RF_PWR_NEG_12DBM == 2
RF_PWR_NEG_6DBM == 4
RF_PWR_0DBM == 6
DYNPD_DISABLE == 0
DYNPD_ENABLE == 63

\* device_mode_t
STANDBY_I == 0
STANDBY_II == 1
TX_MODE == 2
RX_MODE == 3

\* pin_direction_t
LOW == 0
HIGH == 1

(***************************************************************************)
(* uint8_t arithmetic: the C operators on bytes.                           *)
(***************************************************************************)
Pow2(n) == IF n = 0 THEN 1 ELSE IF n = 1 THEN 2 ELSE IF n = 2 THEN 4
           ELSE IF n = 3 THEN 8 ELSE IF n = 4 THEN 16 ELSE IF n = 5 THEN 32
           ELSE IF n = 6 THEN 64 ELSE IF n = 7 THEN 128 ELSE 256

\* (v >> n) & 1
Bit(v, n) == (v \div Pow2(n)) % 2

\* a & b on bytes
BitAnd(a, b) ==
  LET bit(n) == Pow2(n) * (Bit(a, n) * Bit(b, n))
  IN  bit(0) + bit(1) + bit(2) + bit(3) + bit(4) + bit(5) + bit(6) + bit(7)

\* a | b on bytes
BitOr(a, b) ==
  LET bit(n) == Pow2(n) * (IF Bit(a, n) + Bit(b, n) > 0 THEN 1 ELSE 0)
  IN  bit(0) + bit(1) + bit(2) + bit(3) + bit(4) + bit(5) + bit(6) + bit(7)

\* (uint8_t) ~a
BitNot(a) == 255 - (a % 256)

\* (a << n) truncated to a byte
Shl(a, n) == (a * Pow2(n)) % 256

\* the first n elements of s
Take(s, n) == SubSeq(s, 1, IF n < Len(s) THEN n ELSE Len(s))

\* s with its first n elements replaced by the first n elements of b
Overwrite(s, b, n) ==
  [i \in 1..Len(s) |-> IF i <= n /\ i <= Len(b) THEN b[i] ELSE s[i]]


(***************************************************************************)
(* The NRF24L01 chip: its register file, its FIFOs and its reaction to one *)
(* SPI transaction.  The chip is hardware outside the repository; it is    *)
(* modelled from the interface the specification and the driver's comments *)
(* describe (status byte first, write-1-to-clear interrupt bits, 5-byte    *)
(* address registers written LSByte first).                                *)
(***************************************************************************)
AddrRegs == {RX_ADDR_P0, RX_ADDR_P1, TX_ADDR}
ByteRegs == (0..29) \ AddrRegs
Pipes == 0..5

\* register values after power-on reset
ResetReg(r) ==
  CASE r = CONFIG     -> 8
    [] r = EN_AA      -> 63
    [] r = EN_RXADDR  -> 3
    [] r = SETUP_AW   -> 3
    [] r = SETUP_RETR -> 3
    [] r = RF_CH      -> 2
    [] r = RF_SETUP   -> 14
    [] r = RX_ADDR_P2 -> 195
    [] r = RX_ADDR_P3 -> 196
    [] r = RX_ADDR_P4 -> 197
    [] r = RX_ADDR_P5 -> 198
    [] OTHER          -> 0

ResetAddr(r) ==
  IF r = RX_ADDR_P1 THEN <<194, 194, 194, 194, 194>>
                    ELSE <<231, 231, 231, 231, 231>>

\* every payload byte on the air
PayloadByte == 42

ChipReset ==
  [ reg       |-> [r \in ByteRegs |-> ResetReg(r)],
    addr      |-> [r \in AddrRegs |-> ResetAddr(r)],
    tx_fifo   |-> 0,
    rx_fifo   |-> <<>>,
    rx_wid    |-> <<>>,
    tx_active |-> FALSE ]

\* the STATUS byte the chip shifts out: interrupt bits, RX_P_NO, TX_FULL
ChipStatus(chip) ==
  chip.reg[STATUS]
  + Shl(IF chip.rx_fifo = <<>> THEN 7 ELSE Head(chip.rx_fifo), STATUS_RX_P_NO)
  + (IF chip.tx_fifo = MaxTxFifo THEN 1 ELSE 0)

\* a register's content as the bytes a read returns
ChipRead(chip, r) ==
  IF r \in AddrRegs THEN chip.addr[r]
  ELSE IF r = STATUS THEN <<ChipStatus(chip)>>
  ELSE IF r \in ByteRegs THEN <<chip.reg[r]>>
  ELSE <<0>>

\* a register write: STATUS clears the interrupt bits written as 1, an
\* address register takes the bytes sent, any other register the first byte
ChipWrite(chip, r, data) ==
  IF data = <<>> THEN chip
  ELSE IF r = STATUS THEN
    [chip EXCEPT !.reg[STATUS] =
       BitAnd(@, BitNot(BitAnd(data[1], STATUS_INTERRUPT_MASK)))]
  ELSE IF r \in AddrRegs THEN
    [chip EXCEPT !.addr[r] = Overwrite(@, data, Len(data))]
  ELSE IF r \in ByteRegs THEN [chip EXCEPT !.reg[r] = data[1]]
  ELSE chip

\* the device starts to transmit when CE is high, PRIM_RX is clear, the
\* device is powered up and a payload waits in the TX FIFO
ChipSettle(chip, ce) ==
  IF /\ ce = HIGH
     /\ Bit(chip.reg[CONFIG], CONFIG_PRIM_RX) = 0
     /\ Bit(chip.reg[CONFIG], CONFIG_PWR_UP) = 1
     /\ chip.tx_fifo > 0
  THEN [chip EXCEPT !.tx_active = TRUE]
  ELSE chip

\* rx_buffer of a transaction of n bytes: the status byte, then the data
Response(chip, data, n) ==
  [i \in 1..n |-> IF i = 1 THEN ChipStatus(chip)
                  ELSE IF i - 1 <= Len(data) THEN data[i - 1] ELSE 0]

\* the width R_RX_PL_WID reports for the top payload of the RX FIFO
RxPlWid(chip) == IF chip.rx_wid = <<>> THEN 0 ELSE Head(chip.rx_wid)

\* the bytes of the top payload of the RX FIFO
RxPayload(chip) ==
  IF chip.rx_wid = <<>> THEN <<>>
  ELSE [i \in 1..(IF Head(chip.rx_wid) > MAX_BYTES THEN MAX_BYTES
                  ELSE Head(chip.rx_wid)) |-> PayloadByte]

\* one SPI transaction: tx is the tx_buffer, the result the chip afterwards
\* and the rx_buffer
ChipCommand(chip, ce, tx) ==
  LET cmd == tx[1]
      n   == Len(tx)
  IN  IF cmd < W_REGISTER THEN
        [chip |-> chip, rx |-> Response(chip, ChipRead(chip, cmd), n)]
      ELSE IF cmd < 2 * W_REGISTER THEN
        [chip |-> ChipSettle(ChipWrite(chip, cmd - W_REGISTER, Tail(tx)), ce),
         rx   |-> Response(chip, <<>>, n)]
      ELSE IF cmd = W_TX_PAYLOAD THEN
        [chip |-> ChipSettle(
                    [chip EXCEPT !.tx_fifo =
                       IF @ < MaxTxFifo THEN @ + 1 ELSE @], ce),
         rx   |-> Response(chip, <<>>, n)]
      ELSE IF cmd = FLUSH_TX THEN
        [chip |-> [chip EXCEPT !.tx_fifo = 0, !.tx_active = FALSE],
         rx   |-> Response(chip, <<>>, n)]
      ELSE IF cmd = FLUSH_RX THEN
        [chip |-> [chip EXCEPT !.rx_fifo = <<>>, !.rx_wid = <<>>],
         rx   |-> Response(chip, <<>>, n)]
      ELSE IF cmd = R_RX_PL_WID THEN
        [chip |-> chip,
         rx   |-> Response(chip, <<RxPlWid(chip)>>, n)]
      ELSE IF cmd = R_RX_PAYLOAD THEN
        [chip |-> IF chip.rx_fifo = <<>> THEN chip
                  ELSE [chip EXCEPT !.rx_fifo = Tail(@), !.rx_wid = Tail(@)],
         rx   |-> Response(chip, RxPayload(chip), n)]
      ELSE [chip |-> chip, rx |-> Response(chip, <<>>, n)]


(***************************************************************************)
(* The state: the global nrf_driver struct, the chip, the two control      *)
(* lines, the SPI peripheral, and the record of the public call that is in *)
(* progress or returned last.                                              *)
(***************************************************************************)
VARIABLES
  nrf_driver,   \* user_config, address_width_bytes, mode, is_rx_addr_p0, rx_addr_p0
  chip,         \* the NRF24L01
  ce,           \* chip-enable line
  csn,          \* chip-select line
  spi,          \* TRUE while the SPI peripheral is initialised
  pc,           \* "idle", or "polling" inside nrf_driver_send_packet
  call,         \* the public call in progress or returned last
  trace,        \* the pin, delay and SPI events of that call, in order
  p0_arg        \* the buffer of the last nrf_driver_rx_destination(DATA_PIPE_0, ..)

vars == <<nrf_driver, chip, ce, csn, spi, pc, call, trace, p0_arg>>

\* a null pointer argument
NULL == [null |-> TRUE]

\* no pipe-0 buffer recorded
NoAddr == <<>>

\* the initialiser of the global nrf_driver struct
nrf_driver_init ==
  [ user_pins |-> [copi |-> 0, cipo |-> 0, sck |-> 0, csn |-> 0, ce |-> 0],
    user_spi  |-> [baudrate |-> 7000000, instance |-> SPI_0],
    user_config |->
      [ address_width |-> AW_5_BYTES,
        dyn_payloads  |-> DYNPD_DISABLE,
        retr_delay    |-> ARD_500US,
        retr_count    |-> ARC_10RT,
        data_rate     |-> RF_DR_1MBPS,
        power         |-> RF_PWR_0DBM,
        channel       |-> 110 ],
    address_width_bytes |-> FIVE_BYTES,
    is_rx_addr_p0       |-> FALSE,
    rx_addr_p0          |-> <<0, 0, 0, 0, 0>>,
    mode                |-> STANDBY_I ]

(***************************************************************************)
(* The machine record a driver function works on, and the primitives of    *)
(* pin_manager and spi_manager.                                            *)
(***************************************************************************)
\* one event of the trace
Ev(ev, x, data, ok) == [ev |-> ev, x |-> x, data |-> data, ok |-> ok]

Log(m, e) == [m EXCEPT !.trace = Append(@, e)]

\* one C statement after another: v is computed once, then F goes on with it
Bind(v, F(_)) == CHOOSE r \in {F(x) : x \in {v}} : TRUE

\* the machine at the start of a step whose failing transfers are F
Machine(F, tr) ==
  [ drv |-> nrf_driver, chip |-> chip, ce |-> ce, csn |-> csn, spi |-> spi,
    trace |-> tr, nx |-> 0, F |-> F, ret |-> 0, rx |-> <<>>, out |-> 0 ]

\* the sets of failing transfers among the first n of a step
FailSets(n) == {F \in SUBSET (1..n) : Cardinality(F) <= MaxFail}

csn_put_high(m) == Log([m EXCEPT !.csn = HIGH], Ev("CSN", HIGH, <<>>, TRUE))

csn_put_low(m) == Log([m EXCEPT !.csn = LOW], Ev("CSN", LOW, <<>>, TRUE))

\* mutant: the pin is toggled rather than driven high
ce_put_toggle(m) ==
  Log([m EXCEPT !.ce = 1 - @, !.chip = ChipSettle(@, 1 - m.ce)],
      Ev("CE", 1 - m.ce, <<>>, TRUE))

ce_put_high(m) ==
  Log([m EXCEPT !.ce = HIGH, !.chip = ChipSettle(@, HIGH)],
      Ev("CE", HIGH, <<>>, TRUE))

ce_put_low(m) == Log([m EXCEPT !.ce = LOW], Ev("CE", LOW, <<>>, TRUE))

sleep_ms(m, n) == Log(m, Ev("SLEEP_MS", n, <<>>, TRUE))

sleep_us(m, n) == Log(m, Ev("SLEEP_US", n, <<>>, TRUE))

\* the SDK's gpio_set_function(pin, GPIO_FUNC_SPI)
gpio_set_function_spi(m, pin) == Log(m, Ev("GPIO_FUNC", pin, <<>>, TRUE))

\* the SDK's gpio_init: the pin is an input of the SIO block, its output
\* level cleared
gpio_init_ce(m, pin) == Log([m EXCEPT !.ce = LOW], Ev("GPIO_INIT", pin, <<>>, TRUE))

gpio_init_csn(m, pin) == Log([m EXCEPT !.csn = LOW], Ev("GPIO_INIT", pin, <<>>, TRUE))

\* the SDK's gpio_set_dir(pin, GPIO_OUT): the pin drives its level, 0 here
gpio_set_dir_out(m, pin) == Log(m, Ev("GPIO_DIR", pin, <<>>, TRUE))

\* the pins min, min + 4, .. up to max
PinRange(min, max) == {pin \in min..max : (pin - min) % 4 = 0}

\* CIPO in 0, 4 .. 28, COPI in 3, 7 .. 27, SCK in 2, 6 .. 26
pin_manager_validate(copi, cipo, sck) ==
  LET valid_pins == (IF cipo \in PinRange(0, 28) THEN 1 ELSE 0)
                  + (IF copi \in PinRange(3, 27) THEN 1 ELSE 0)
                  + (IF sck \in PinRange(2, 26) THEN 1 ELSE 0)
  IN  IF valid_pins = 3 THEN PIN_MNGR_OK ELSE ERROR

\* CE and CSN become outputs; neither is driven high
pin_manager_configure(m, copi, cipo, sck, csn_pin, ce_pin) ==
  LET status == pin_manager_validate(copi, cipo, sck)
  IN  IF status # 0
      THEN Bind(gpio_set_function_spi(gpio_set_function_spi(
                  gpio_set_function_spi(m, sck), copi), cipo), LAMBDA a :
             Bind(gpio_init_csn(gpio_init_ce(a, ce_pin), csn_pin), LAMBDA b :
               [gpio_set_dir_out(gpio_set_dir_out(b, ce_pin), csn_pin)
                  EXCEPT !.ret = status]))
      ELSE [m EXCEPT !.ret = status]

\* instance_pattern[(pin - min) / 4] of nrf_driver_configure
instance_pattern(pin, min) == (((pin - min) \div 4) \div 2) % 2

nrf_driver_configure(m, user_pins, baudrate_hz) ==
  Bind(pin_manager_configure(m, user_pins.copi, user_pins.cipo, user_pins.sck,
                             user_pins.csn, user_pins.ce),
       LAMBDA a :
    IF a.ret = PIN_MNGR_OK
    THEN LET b == [a EXCEPT !.drv.user_pins = user_pins]
             spi_instances == << instance_pattern(user_pins.cipo, 0),
                                 instance_pattern(user_pins.copi, 3),
                                 instance_pattern(user_pins.sck, 2) >>
             count == [k \in {SPI_0, SPI_1} |->
                         Cardinality({i \in 1..3 : spi_instances[i] = k})]
             status == IF count[SPI_0] = 3 \/ count[SPI_1] = 3
                       THEN PIN_MNGR_OK ELSE ERROR
         IN  IF status = PIN_MNGR_OK
             THEN [b EXCEPT !.drv.user_spi =
                              [baudrate |-> IF baudrate_hz > 7500000 THEN 7500000
                                            ELSE baudrate_hz,
                               instance |-> IF count[SPI_0] = 3 THEN SPI_0 ELSE SPI_1],
                            !.ret = status]
             ELSE [b EXCEPT !.ret = status]
    ELSE a)

spi_manager_init_spi(m) ==
  Log([m EXCEPT !.spi = TRUE], Ev("SPI_INIT", 0, <<>>, TRUE))

spi_manager_deinit_spi(m) ==
  Log([m EXCEPT !.spi = FALSE], Ev("SPI_DEINIT", 0, <<>>, TRUE))

\* spi_manager.c: a full-duplex transfer of tx between two delays of 2 us.
\* A failing transfer moves no byte, leaves the chip as it was and fills no
\* rx byte; bytes_written is a uint8_t that is compared with num_bytes.
spi_manager_transfer(m0, tx_buffer) ==
  Bind(sleep_us(m0, 2), LAMBDA m : Bind(tx_buffer, LAMBDA tx :
    Bind(ChipCommand(m.chip, m.ce, tx), LAMBDA r :
      LET k     == m.nx + 1
          moved == k \notin m.F
          bytes_written == (IF moved THEN Len(tx) ELSE 0) % 256
      IN  sleep_us(
            Log([m EXCEPT !.nx   = k,
                          !.chip = IF moved THEN r.chip ELSE @,
                          !.rx   = IF moved THEN r.rx ELSE <<>>,
                          !.ret  = IF bytes_written = Len(tx) THEN OK ELSE SPI_FAIL],
                Ev("XFER", tx[1], Tail(tx), moved)),
            2))))

\* the transfer as nrf24_driver.c calls it, spi_manager_transfer(spi->instance,
\* tx_buffer, rx_buffer, len) of spi_manager.h: its result is a fn_status_t,
\* SPI_MNGR_OK for a complete transfer and ERROR otherwise
spi_manager_transfer_instance(m, tx_buffer) ==
  Bind(spi_manager_transfer(m, tx_buffer), LAMBDA a :
    [a EXCEPT !.ret = IF a.ret = OK THEN SPI_MNGR_OK ELSE ERROR])

\* the SDK's write-only transfer, whose result the driver never reads
spi_write_blocking(m0, tx) ==
  Bind(m0, LAMBDA m :
    Log([m EXCEPT !.chip = ChipCommand(m.chip, m.ce, tx).chip],
        Ev("XFER", tx[1], Tail(tx), TRUE)))

(***************************************************************************)
(* Static utility functions of nrf24_driver.c.                             *)
(***************************************************************************)
w_register(m, reg, buffer, size) ==
  LET tx == <<BitOr(BitAnd(REGISTER_MASK, reg), W_REGISTER)>> \o Take(buffer, size)
  IN  csn_put_high(spi_manager_transfer_instance(csn_put_low(m), tx))

\* m.ret is the byte read; rx_buffer starts as {0, 0}
r_register_byte(m, reg) ==
  Bind(spi_manager_transfer_instance(csn_put_low(m), <<reg, NOP>>), LAMBDA m1 :
    [csn_put_high(m1) EXCEPT !.ret = IF m1.rx = <<>> THEN 0 ELSE m1.rx[2]])

\* mutant: the TX FIFO is not flushed
flush_tx_fifo_skipped(m) == m

flush_tx_fifo(m) ==
  csn_put_high(sleep_us(spi_write_blocking(sleep_us(csn_put_low(m), 2),
                                           <<FLUSH_TX>>), 2))

flush_rx_fifo(m) ==
  csn_put_high(sleep_us(spi_write_blocking(sleep_us(csn_put_low(m), 2),
                                           <<FLUSH_RX>>), 2))

\* mutant: all three interrupt bits are written back at once
reset_bit_all(bit) == STATUS_INTERRUPT_MASK

\* reset_bit = (SET_BIT << bit): the byte written to STATUS to clear one bit
reset_bit(bit) == Shl(SET_BIT, bit)

\* mutant: the first interrupt found is the one reported
assert_bit_first_wins(asserted_bit, found) ==
  IF asserted_bit = NONE_ASSERTED THEN found ELSE asserted_bit

\* asserted_bit = found: a later if overwrites what an earlier one assigned
assert_bit(asserted_bit, found) == found

\* m.ret is the fn_status_irq_t returned; with a non-null rx_p_no, m.out is
\* the pipe number stored through it
check_status_irq(m, rx_p_no) ==
  Bind(r_register_byte(m, STATUS), LAMBDA m0 :
  LET status == m0.ret
      rx_dr  == Bit(status, STATUS_RX_DR)
      tx_ds  == Bit(status, STATUS_TX_DS)
      max_rt == Bit(status, STATUS_MAX_RT)
      m1 == IF rx_dr = 1
            THEN LET a == IF rx_p_no # NULL
                          THEN [m0 EXCEPT !.out =
                                  BitAnd(status \div Pow2(STATUS_RX_P_NO),
                                         STATUS_RX_P_NO_MASK)]
                          ELSE m0
                 IN  [w_register(a, STATUS, <<reset_bit(STATUS_RX_DR)>>, ONE_BYTE)
                        EXCEPT !.ret = RX_DR_ASSERTED]
            ELSE [m0 EXCEPT !.ret = NONE_ASSERTED]
  IN  Bind(m1, LAMBDA a :
        Bind(IF tx_ds = 1
             THEN [w_register(a, STATUS, <<reset_bit(STATUS_TX_DS)>>, ONE_BYTE)
                     EXCEPT !.ret = assert_bit(a.ret, TX_DS_ASSERTED)]
             ELSE a,
             LAMBDA m2 :
          IF max_rt = 1
          THEN flush_tx_fifo(
                 [w_register(m2, STATUS, <<reset_bit(STATUS_MAX_RT)>>, ONE_BYTE)
                    EXCEPT !.ret = assert_bit(m2.ret, MAX_RT_ASSERTED)])
          ELSE m2)))

\* the number of members of user_config that validate_config finds valid
valid_members(user_config) ==
  LET aw   == IF user_config.address_width >= AW_3_BYTES
                 /\ user_config.address_width <= AW_5_BYTES THEN 1 ELSE 0
      ch   == IF user_config.channel >= 2 /\ user_config.channel <= 125
              THEN 1 ELSE 0
      dr   == IF user_config.data_rate \in {RF_DR_1MBPS, RF_DR_2MBPS, RF_DR_250KBPS}
              THEN 1 ELSE 0
      dyn  == IF user_config.dyn_payloads = DYNPD_ENABLE
                 \/ user_config.dyn_payloads = DYNPD_DISABLE THEN 1 ELSE 0
      pow  == Cardinality({p \in {RF_PWR_NEG_18DBM + 2 * i : i \in 0..3} :
                             p <= RF_PWR_0DBM /\ user_config.power = p})
      rc   == IF user_config.retr_count <= ARC_15RT THEN 1 ELSE 0
      rd   == Cardinality({d \in {ARD_250US + 16 * i : i \in 0..3} :
                             d <= ARD_1000US /\ user_config.retr_delay = d})
  IN  aw + ch + dr + dyn + pow + rc + rd

\* mutant: one invalid member is let through
validate_config_six_of_seven(user_config) ==
  IF valid_members(user_config) >= 6 THEN NRF_MNGR_OK ELSE ERROR

\* mutant: the RF channel is not looked at
validate_config_any_channel(user_config) ==
  IF valid_members([user_config EXCEPT !.channel = 2]) = 7 THEN NRF_MNGR_OK ELSE ERROR

validate_config(user_config) ==
  IF valid_members(user_config) = 7 THEN NRF_MNGR_OK ELSE ERROR


(***************************************************************************)
(* Public driver functions.                                                *)
(***************************************************************************)
\* mutant: the power-up write of CONFIG comes after the RF set-up
register_list_config_late(config) ==
  << [reg |-> EN_AA,      buf |-> <<ENAA_ALL>>],
     [reg |-> SETUP_AW,   buf |-> <<config.address_width>>],
     [reg |-> SETUP_RETR, buf |-> <<BitOr(config.retr_count, config.retr_delay)>>],
     [reg |-> RF_CH,      buf |-> <<config.channel>>],
     [reg |-> RF_SETUP,   buf |-> <<BitOr(config.data_rate, config.power)>>],
     [reg |-> CONFIG,     buf |-> <<14>>],
     [reg |-> FEATURE,    buf |-> <<BitOr(Shl(SET_BIT, FEATURE_EN_DPL),
                                          Shl(SET_BIT, FEATURE_EN_DYN_ACK))>>],
     [reg |-> DYNPD,      buf |-> <<config.dyn_payloads>>],
     [reg |-> STATUS,     buf |-> <<STATUS_INTERRUPT_MASK>>] >>

\* the array of register addresses and values nrf_driver_initialise builds
register_list(config) ==
  << [reg |-> CONFIG,     buf |-> <<14>>],
     [reg |-> EN_AA,      buf |-> <<ENAA_ALL>>],
     [reg |-> SETUP_AW,   buf |-> <<config.address_width>>],
     [reg |-> SETUP_RETR, buf |-> <<BitOr(config.retr_count, config.retr_delay)>>],
     [reg |-> RF_CH,      buf |-> <<config.channel>>],
     [reg |-> RF_SETUP,   buf |-> <<BitOr(config.data_rate, config.power)>>],
     [reg |-> FEATURE,    buf |-> <<BitOr(Shl(SET_BIT, FEATURE_EN_DPL),
                                          Shl(SET_BIT, FEATURE_EN_DYN_ACK))>>],
     [reg |-> DYNPD,      buf |-> <<config.dyn_payloads>>],
     [reg |-> STATUS,     buf |-> <<STATUS_INTERRUPT_MASK>>] >>

\* the number of entries of register_list the write loop visits (i < 8)
InitLoopCount == 8

\* the write loop of nrf_driver_initialise from index i (1-based) on
RECURSIVE InitWrites(_, _, _)
InitWrites(m, list, i) ==
  IF i > InitLoopCount THEN m
  ELSE LET m1 == w_register(m, list[i].reg, list[i].buf, ONE_BYTE)
       IN  Bind(IF list[i].reg = CONFIG THEN sleep_ms(m1, 5) ELSE m1, LAMBDA m2 :
             IF m2.ret = ERROR THEN m2 ELSE InitWrites(m2, list, i + 1))

\* the width in bytes nrf_driver_initialise caches for an address_width_t
address_width_to_bytes(address_width) ==
  IF address_width + 2 <= FIVE_BYTES THEN address_width + 2 ELSE FIVE_BYTES

nrf_driver_initialise(m, user_config) ==
  Bind(csn_put_high(sleep_ms(ce_put_low(sleep_ms(spi_manager_init_spi(m), 100)), 1)),
       LAMBDA m1 :
  LET status0 == IF user_config # NULL THEN validate_config(user_config) ELSE ERROR
      m2 == IF user_config # NULL /\ status0 = NRF_MNGR_OK
            THEN [m1 EXCEPT
                    !.drv.user_config = user_config,
                    !.drv.address_width_bytes =
                       address_width_to_bytes(user_config.address_width)]
            ELSE m1
      m3 == IF status0 = NRF_MNGR_OK
            THEN flush_rx_fifo(flush_tx_fifo(
                   InitWrites([m2 EXCEPT !.ret = status0],
                              register_list(m2.drv.user_config), 1)))
            ELSE [m2 EXCEPT !.ret = status0]
  IN  Bind(m3, LAMBDA r : [spi_manager_deinit_spi(r) EXCEPT !.ret = r.ret]))

\* mutant: the loop goes on to the next register after a failed write
tx_destination_break_never(status) == FALSE

\* if (status == ERROR) { break; } in the loop of nrf_driver_tx_destination
tx_destination_break(status) == status = ERROR

\* the loop of nrf_driver_tx_destination over { RX_ADDR_P0, TX_ADDR }
RECURSIVE TxDestWrites(_, _, _, _)
TxDestWrites(m, registers, buffer, i) ==
  IF i > Len(registers) THEN m
  ELSE Bind(w_register(m, registers[i], buffer, m.drv.address_width_bytes),
            LAMBDA m1 : IF tx_destination_break(m1.ret) THEN m1
                        ELSE TxDestWrites(m1, registers, buffer, i + 1))

nrf_driver_tx_destination(m, buffer) ==
  Bind(TxDestWrites(spi_manager_init_spi(m), <<RX_ADDR_P0, TX_ADDR>>, buffer, 1),
       LAMBDA m1 : [spi_manager_deinit_spi(m1) EXCEPT !.ret = m1.ret])

\* mutant: every pipe is written over the full address width
rx_destination_size_full(drv, data_pipe) == drv.address_width_bytes

\* the number of address bytes nrf_driver_rx_destination writes for a pipe
rx_destination_size(drv, data_pipe) ==
  IF data_pipe < DATA_PIPE_2 THEN drv.address_width_bytes ELSE ONE_BYTE

\* mutant: the address of pipe 1 is cached as well
rx_destination_caches_full_width(data_pipe) == data_pipe < DATA_PIPE_2

\* if (data_pipe == DATA_PIPE_0): the call caches the address
rx_destination_caches(data_pipe) == data_pipe = DATA_PIPE_0

nrf_driver_rx_destination(m, data_pipe, buffer) ==
  LET registers == <<RX_ADDR_P0, RX_ADDR_P1, RX_ADDR_P2,
                     RX_ADDR_P3, RX_ADDR_P4, RX_ADDR_P5>>
      m0 == spi_manager_init_spi(m)
      m1 == IF rx_destination_caches(data_pipe)
            THEN [m0 EXCEPT !.drv.is_rx_addr_p0 = TRUE,
                            !.drv.rx_addr_p0 =
                               Overwrite(@, buffer, m0.drv.address_width_bytes)]
            ELSE m0
      written ==
        Bind(w_register(m1, registers[data_pipe + 1], buffer,
                        rx_destination_size(m1.drv, data_pipe)),
             LAMBDA m2 :
          Bind(r_register_byte(m2, EN_RXADDR), LAMBDA m3 :
            LET en_rxaddr == m3.ret
            IN  IF Bit(en_rxaddr, data_pipe) # SET_BIT
                THEN w_register(m3, EN_RXADDR,
                                <<BitOr(en_rxaddr, Shl(SET_BIT, data_pipe))>>,
                                ONE_BYTE)
                ELSE [m3 EXCEPT !.ret = m2.ret]))
  IN  Bind(IF data_pipe < ALL_DATA_PIPES THEN written ELSE [m1 EXCEPT !.ret = ERROR],
           LAMBDA m5 : [spi_manager_deinit_spi(m5) EXCEPT !.ret = m5.ret])

\* rx_pw_registers[i]; an index past the six entries reads whatever lies
\* behind the array, here wild
rx_pw_registers(i, wild) == IF i < ALL_DATA_PIPES THEN RX_PW_P0 + i ELSE wild

\* mutant: a payload of 33 bytes passes the size check
payload_size_status_upto_33(size) ==
  IF size > ZERO_BYTES /\ size <= MAX_BYTES + 1 THEN NRF_MNGR_OK ELSE ERROR

\* the size check of nrf_driver_payload_size
payload_size_status(size) ==
  IF size > ZERO_BYTES /\ size <= MAX_BYTES THEN NRF_MNGR_OK ELSE ERROR

\* the ALL_DATA_PIPES loop of nrf_driver_payload_size, from index i
RECURSIVE PayloadSizeWrites(_, _, _)
PayloadSizeWrites(m, size, i) ==
  IF i >= ALL_DATA_PIPES THEN m
  ELSE Bind(w_register(m, rx_pw_registers(i, 0), <<size % 256>>, ONE_BYTE), LAMBDA m1 :
         IF m1.ret = ERROR THEN m1 ELSE PayloadSizeWrites(m1, size, i + 1))

\* &size is handed to w_register: the byte written is the low byte of size
nrf_driver_payload_size(m, data_pipe, size, wild) ==
  LET m0 == spi_manager_init_spi(m)
      status == payload_size_status(size)
  IN  Bind(IF status = NRF_MNGR_OK
           THEN IF data_pipe = ALL_DATA_PIPES
                THEN PayloadSizeWrites(m0, size, 0)
                ELSE w_register(m0, rx_pw_registers(data_pipe, wild),
                                <<size % 256>>, ONE_BYTE)
           ELSE [m0 EXCEPT !.ret = ERROR],
           LAMBDA m1 : [spi_manager_deinit_spi(m1) EXCEPT !.ret = m1.ret])

\* config->dyn_payloads = (status) ? ... : ... is assigned between the two
\* writes; the DYNPD write is made only after a successful FEATURE write
nrf_driver_dyn_payloads_enable(m) ==
  LET m0 == spi_manager_init_spi(m)
  IN  Bind(IF m0.drv.user_config.dyn_payloads = DYNPD_DISABLE
           THEN Bind(r_register_byte(m0, FEATURE), LAMBDA a :
                  LET feature == BitOr(a.ret, Shl(SET_BIT, FEATURE_EN_DPL))
                  IN  Bind(w_register(a, FEATURE, <<feature>>, ONE_BYTE), LAMBDA b :
                        Bind([b EXCEPT !.drv.user_config.dyn_payloads =
                                IF b.ret # 0 THEN DYNPD_ENABLE ELSE DYNPD_DISABLE],
                             LAMBDA c :
                               IF c.ret = SPI_MNGR_OK
                               THEN w_register(c, DYNPD, <<DYNPD_ENABLE>>, ONE_BYTE)
                               ELSE c)))
           ELSE [m0 EXCEPT !.ret = SPI_MNGR_OK],
           LAMBDA m1 : [spi_manager_deinit_spi(m1) EXCEPT !.ret = m1.ret])

nrf_driver_dyn_payloads_disable(m) ==
  LET m0 == spi_manager_init_spi(m)
  IN  Bind(IF m0.drv.user_config.dyn_payloads = DYNPD_ENABLE
           THEN Bind(r_register_byte(m0, FEATURE), LAMBDA a :
                  LET feature == BitAnd(a.ret, BitNot(Shl(SET_BIT, FEATURE_EN_DPL)))
                  IN  Bind(w_register(a, FEATURE, <<feature>>, ONE_BYTE), LAMBDA b :
                        Bind([b EXCEPT !.drv.user_config.dyn_payloads =
                                IF b.ret # 0 THEN DYNPD_DISABLE ELSE DYNPD_ENABLE],
                             LAMBDA c :
                               IF c.ret = SPI_MNGR_OK
                               THEN w_register(c, DYNPD, <<DYNPD_DISABLE>>, ONE_BYTE)
                               ELSE c)))
           ELSE [m0 EXCEPT !.ret = NRF_MNGR_OK],
           LAMBDA m1 : [spi_manager_deinit_spi(m1) EXCEPT !.ret = m1.ret])

nrf_driver_rf_channel(m, channel) ==
  IF channel >= 2 /\ channel <= 125
  THEN Bind(w_register(m, RF_CH, <<channel>>, ONE_BYTE), LAMBDA m1 :
         [m1 EXCEPT !.drv.user_config.channel =
                      IF m1.ret = SPI_MNGR_OK THEN channel ELSE @])
  ELSE [m EXCEPT !.ret = ERROR]

\* the buffer handed to w_register is the integer (delay | count) cast to a
\* pointer: the byte written is whatever lies at that address, here wild
\* (on the RP2040 addresses 0..63 are boot ROM and can be read)
nrf_driver_auto_retransmission(m, delay, count, wild) ==
  LET m0 == spi_manager_init_spi(m)
      valid_params ==
        (IF count <= ARC_15RT THEN 1 ELSE 0)
        + Cardinality({i \in {16 * k : k \in 0..3} : i < 48 /\ delay = i})
      status == IF valid_params = 2 THEN NRF_MNGR_OK ELSE ERROR
  IN  Bind(IF status = NRF_MNGR_OK
           THEN w_register(m0, SETUP_RETR, <<wild>>, ONE_BYTE)
           ELSE [m0 EXCEPT !.ret = ERROR],
           LAMBDA m1 : [spi_manager_deinit_spi(m1) EXCEPT !.ret = m1.ret])

\* SPI is deinitialised only on the path that passed validation
nrf_driver_rf_data_rate(m, data_rate) ==
  LET m0 == spi_manager_init_spi(m)
  IN  IF data_rate \in {RF_DR_1MBPS, RF_DR_2MBPS, RF_DR_250KBPS}
      THEN Bind(r_register_byte(m0, RF_SETUP), LAMBDA a :
             LET rf_setup == BitOr(BitAnd(a.ret, RF_SETUP_RF_PWR_MASK),
                                   BitAnd(data_rate, RF_SETUP_RF_DR_MASK))
             IN  Bind(w_register(a, RF_SETUP, <<rf_setup>>, ONE_BYTE), LAMBDA b :
                   [spi_manager_deinit_spi(b) EXCEPT !.ret = b.ret]))
      ELSE [m0 EXCEPT !.ret = ERROR]

nrf_driver_rf_power(m, rf_pwr) ==
  LET m0 == spi_manager_init_spi(m)
      status == IF \E i \in {2 * k : k \in 0..3} : i < 6 /\ rf_pwr = i
                THEN NRF_MNGR_OK ELSE ERROR
  IN  Bind(IF status = NRF_MNGR_OK
           THEN Bind(r_register_byte(m0, RF_SETUP), LAMBDA a :
                  LET rf_setup == BitOr(BitAnd(a.ret, RF_SETUP_RF_DR_MASK),
                                        BitAnd(rf_pwr, RF_SETUP_RF_PWR_MASK))
                  IN  w_register(a, RF_SETUP, <<rf_setup>>, ONE_BYTE))
           ELSE [m0 EXCEPT !.ret = ERROR],
           LAMBDA m1 : [spi_manager_deinit_spi(m1) EXCEPT !.ret = m1.ret])

\* mutant: an over-long width is reported but the RX FIFO is not flushed
read_packet_width_check_no_flush(a, width) ==
  IF width > MAX_BYTES THEN [a EXCEPT !.ret = ERROR] ELSE a

\* the check of the width R_RX_PL_WID returned, in nrf_driver_read_packet
read_packet_width_check(a, width) ==
  IF width > MAX_BYTES THEN [flush_rx_fifo(a) EXCEPT !.ret = ERROR] ELSE a

\* the caller's buffer rx_packet is m.out.  rx_buffer of either transfer is
\* uninitialised and a transfer that moves nothing leaves it so: width_uninit
\* is rx_buffer[1] of the width query before the transfer, payload_uninit
\* are rx_buffer[1..size] of the payload read before the transfer
nrf_driver_read_packet(m, size, width_uninit, payload_uninit) ==
  LET m0 == spi_manager_init_spi(m)
      m1 == IF m0.drv.user_config.dyn_payloads # 0
            THEN Bind(csn_put_high(spi_manager_transfer_instance(csn_put_low(m0),
                                                        <<R_RX_PL_WID, NOP>>)),
                      LAMBDA a :
                        LET width == IF a.rx = <<>> THEN width_uninit ELSE a.rx[2]
                        IN  read_packet_width_check(a, width))
            ELSE [m0 EXCEPT !.ret = SPI_MNGR_OK]
  IN  Bind(m1, LAMBDA m2 :
        Bind(IF m2.ret # 0
             THEN Bind(csn_put_high(spi_manager_transfer_instance(csn_put_low(m2),
                         <<R_RX_PAYLOAD>> \o [i \in 1..size |-> NOP])),
                       LAMBDA b :
                         [b EXCEPT !.out = [i \in 1..size |->
                                              IF b.rx = <<>> THEN payload_uninit[i]
                                              ELSE b.rx[i + 1]]])
             ELSE m2,
             LAMBDA m3 : [spi_manager_deinit_spi(m3) EXCEPT !.ret = m3.ret]))

\* the caller's *rx_p_no is m.out
nrf_driver_is_packet(m, rx_p_no) ==
  Bind(check_status_irq(spi_manager_init_spi(m), rx_p_no), LAMBDA a :
    [spi_manager_deinit_spi(a) EXCEPT
       !.ret = IF a.ret = RX_DR_ASSERTED THEN NRF_MNGR_OK ELSE ERROR])

\* an assignment nrf_driver.mode = mode; at is the source line of the statement
assign_mode(m, at, mode) ==
  Log([m EXCEPT !.drv.mode = mode], Ev("MODE", mode, <<at>>, TRUE))

nrf_driver_standby_mode(m) ==
  LET m0 == spi_manager_init_spi(m)
      m1 == IF m0.drv.mode = RX_MODE
            THEN Bind(r_register_byte(m0, CONFIG), LAMBDA a :
                   LET config == BitAnd(a.ret, BitNot(Shl(SET_BIT, CONFIG_PRIM_RX)))
                       b == w_register(a, CONFIG, <<config>>, ONE_BYTE)
                       c == sleep_us(ce_put_low(b), 130)
                   IN  assign_mode(c, 756, STANDBY_I))
            ELSE m0
  IN  [spi_manager_deinit_spi(m1) EXCEPT !.ret = NRF_MNGR_OK]

\* mutant: the cached pipe-0 address is never written back
restore_rx_addr_p0_skipped(m) == m

\* the restore of RX_ADDR_P0 in nrf_driver_receiver_mode
restore_rx_addr_p0(m0) ==
  Bind(m0, LAMBDA m :
    IF m.drv.is_rx_addr_p0
    THEN w_register(m, RX_ADDR_P0, m.drv.rx_addr_p0, m.drv.address_width_bytes)
    ELSE m)

nrf_driver_receiver_mode(m) ==
  Bind(r_register_byte(spi_manager_init_spi(m), CONFIG), LAMBDA m0 :
    LET config  == m0.ret
        prim_rx == Bit(config, CONFIG_PRIM_RX)
    IN  Bind(IF prim_rx # SET_BIT
             THEN w_register(m0, CONFIG,
                             <<BitOr(config, Shl(SET_BIT, CONFIG_PRIM_RX))>>,
                             ONE_BYTE)
             ELSE [m0 EXCEPT !.ret = NRF_MNGR_OK],
             LAMBDA m1 :
          LET status == m1.ret
              m2 == restore_rx_addr_p0(m1)
              m3 == sleep_us(ce_put_high(m2), 130)
              m4 == assign_mode(m3, 1005, RX_MODE)
          IN  [spi_manager_deinit_spi(m4) EXCEPT !.ret = status]))

\* nrf_driver_send_packet up to the end of the chip-enable pulse; m.ret is
\* the status of the payload transfer
send_packet_load(m, tx_packet, size) ==
  LET m0 == IF m.drv.mode = RX_MODE
            THEN assign_mode(nrf_driver_standby_mode(m), 783, STANDBY_I)
            ELSE m
      m1 == spi_manager_init_spi(m0)
      tx_buffer == <<W_TX_PAYLOAD>> \o Take(tx_packet, size)
  IN  Bind(csn_put_high(spi_manager_transfer_instance(csn_put_low(ce_put_high(m1)),
                                             tx_buffer)),
           LAMBDA m2 :
        LET status == m2.ret
            m3 == sleep_us(assign_mode(m2, 816, TX_MODE), 15)
            m4 == assign_mode(ce_put_low(m3), 823, STANDBY_I)
        IN  [m4 EXCEPT !.ret = status])

\* mutant: the loop no longer tests the status of the payload transfer
send_packet_continue_no_status(status, status_irq) ==
  status_irq = NONE_ASSERTED

\* mutant: the loop waits for the acknowledgement alone
send_packet_continue_until_ack(status, status_irq) ==
  status = SPI_MNGR_OK /\ status_irq # TX_DS_ASSERTED

\* the loop condition of nrf_driver_send_packet
send_packet_continue(status, status_irq) ==
  status = SPI_MNGR_OK /\ status_irq = NONE_ASSERTED

\* the value nrf_driver_send_packet returns
send_packet_result(status, status_irq) ==
  IF status_irq = TX_DS_ASSERTED THEN NRF_MNGR_OK ELSE ERROR

\* one check_status_irq of nrf_driver_send_packet and, when the loop ends
\* with it, the rest of the function; m.out is the fn_status_irq_t polled
send_packet_poll(m, status) ==
  Bind(check_status_irq(m, NULL), LAMBDA m1 :
    LET status_irq == m1.ret
    IN  IF send_packet_continue(status, status_irq)
        THEN [m1 EXCEPT !.out = status_irq]
        ELSE [spi_manager_deinit_spi(m1) EXCEPT
                !.out = status_irq,
                !.ret = send_packet_result(status, status_irq)])


(***************************************************************************)
(* Inputs of the public calls.                                             *)
(***************************************************************************)
DefaultConfig == nrf_driver_init.user_config

\* 3-byte addresses, dynamic payloads, the slowest rate and lowest power
SmallConfig ==
  [ address_width |-> AW_3_BYTES,
    dyn_payloads  |-> DYNPD_ENABLE,
    retr_delay    |-> ARD_250US,
    retr_count    |-> ARC_15RT,
    data_rate     |-> RF_DR_250KBPS,
    power         |-> RF_PWR_NEG_18DBM,
    channel       |-> 2 ]

\* channel 1 is below the legal minimum
BadConfig == [DefaultConfig EXCEPT !.channel = 1]

ConfigArgs == {NULL, DefaultConfig, SmallConfig, BadConfig}

AddrA == <<55, 56, 57, 58, 59>>
AddrB == <<199, 200, 201, 202, 203>>
AddrArgs == {AddrA, AddrB}

PayloadArgs == {<<42>>}

\* val lists the scalar arguments of a call
NoArg == [cfg |-> NULL, pipe |-> 0, buf |-> <<>>, val |-> <<>>]

CallRec(op, arg, m) ==
  [op |-> op, arg |-> arg, ret |-> m.ret, status |-> 0, status_irq |-> 0, polls |-> 0,
   out |-> m.out]

(***************************************************************************)
(* Actions.                                                                *)
(***************************************************************************)
Init ==
  /\ nrf_driver = nrf_driver_init
  /\ chip = ChipReset
  /\ ce = LOW
  /\ csn = LOW
  /\ spi = FALSE
  /\ pc = "idle"
  /\ call = [op |-> "none", arg |-> NoArg, ret |-> 0, status |-> 0,
             status_irq |-> 0, polls |-> 0, out |-> 0]
  /\ trace = <<>>
  /\ p0_arg = NoAddr

\* the state after a step that ends in machine m
Commit(m) ==
  /\ nrf_driver' = m.drv
  /\ chip' = m.chip
  /\ ce' = m.ce
  /\ csn' = m.csn
  /\ spi' = m.spi
  /\ trace' = m.trace

\* pin sets on SPI 0, on both instances, and with a pin that is no COPI pin
PinArgs ==
  { [copi |-> 3,  cipo |-> 4,  sck |-> 2,  csn |-> 5,  ce |-> 6],
    [copi |-> 3,  cipo |-> 12, sck |-> 2,  csn |-> 5,  ce |-> 6],
    [copi |-> 1,  cipo |-> 4,  sck |-> 2,  csn |-> 5,  ce |-> 6] }

\* above the 7.5 MHz the driver allows
BaudrateArgs == {8000000}

Configure(user_pins, baudrate_hz) ==
  /\ pc = "idle"
  /\ \E m \in {nrf_driver_configure(Machine({}, <<>>), user_pins, baudrate_hz)} :
         /\ Commit(m)
         /\ call' = CallRec("configure",
                            [NoArg EXCEPT !.val = <<user_pins.copi, user_pins.cipo,
                                                    user_pins.sck, baudrate_hz>>], m)
  /\ UNCHANGED <<pc, p0_arg>>

Initialise(cfg, F) ==
  /\ pc = "idle"
  /\ \E m \in {nrf_driver_initialise(Machine(F, <<>>), cfg)} :
         /\ Commit(m)
         /\ call' = CallRec("initialise", [NoArg EXCEPT !.cfg = cfg], m)
  /\ p0_arg' = NoAddr
  /\ UNCHANGED pc

TxDestination(buffer, F) ==
  /\ pc = "idle"
  /\ \E m \in {nrf_driver_tx_destination(Machine(F, <<>>), buffer)} :
         /\ Commit(m)
         /\ call' = CallRec("tx_destination", [NoArg EXCEPT !.buf = buffer], m)
  /\ UNCHANGED <<pc, p0_arg>>

RxDestination(data_pipe, buffer, F) ==
  /\ pc = "idle"
  /\ \E m \in {nrf_driver_rx_destination(Machine(F, <<>>), data_pipe, buffer)} :
         /\ Commit(m)
         /\ call' = CallRec("rx_destination",
                            [NoArg EXCEPT !.pipe = data_pipe, !.buf = buffer], m)
  /\ p0_arg' = IF data_pipe = DATA_PIPE_0 THEN buffer ELSE p0_arg
  /\ UNCHANGED pc

StandbyMode(F) ==
  /\ pc = "idle"
  /\ \E m \in {nrf_driver_standby_mode(Machine(F, <<>>))} :
         /\ Commit(m)
         /\ call' = CallRec("standby_mode", NoArg, m)
  /\ UNCHANGED <<pc, p0_arg>>

ReceiverMode(F) ==
  /\ pc = "idle"
  /\ \E m \in {nrf_driver_receiver_mode(Machine(F, <<>>))} :
         /\ Commit(m)
         /\ call' = CallRec("receiver_mode", NoArg, m)
  /\ UNCHANGED <<pc, p0_arg>>

\* nrf_driver_send_packet is entered and runs to the end of the CE pulse
SendLoad(tx_packet, F) ==
  /\ pc = "idle"
  /\ \E m \in {send_packet_load(Machine(F, <<>>), tx_packet, Len(tx_packet))} :
         /\ Commit(m)
         /\ call' = [CallRec("send_packet", [NoArg EXCEPT !.buf = tx_packet], m)
                       EXCEPT !.ret = 0, !.status = m.ret]
  /\ pc' = "polling"
  /\ UNCHANGED p0_arg

\* one status poll of nrf_driver_send_packet; the function returns with the
\* poll that ends its loop
SendPoll(F) ==
  /\ pc = "polling"
  /\ \E m \in {send_packet_poll(Machine(F, trace), call.status)} :
     LET goes_on == send_packet_continue(call.status, m.out)
     IN  /\ goes_on => call.polls < MaxPolls
         /\ Commit(m)
         /\ call' = [call EXCEPT !.polls = @ + 1,
                                 !.status_irq = m.out,
                                 !.ret = IF goes_on THEN 0 ELSE m.ret]
         /\ pc' = IF goes_on THEN "polling" ELSE "idle"
  /\ UNCHANGED p0_arg

\* the chip receives the auto-acknowledgement of the packet it transmits
ChipAck ==
  /\ chip.tx_active
  /\ chip.tx_fifo > 0
  /\ chip' = [chip EXCEPT !.tx_active = FALSE,
                          !.tx_fifo = @ - 1,
                          !.reg[STATUS] = BitOr(@, Shl(SET_BIT, STATUS_TX_DS))]
  /\ UNCHANGED <<nrf_driver, ce, csn, spi, pc, call, trace, p0_arg>>

\* the chip runs out of retransmissions; the payload stays in the TX FIFO
ChipMaxRt ==
  /\ chip.tx_active
  /\ chip' = [chip EXCEPT !.tx_active = FALSE,
                          !.reg[STATUS] = BitOr(@, Shl(SET_BIT, STATUS_MAX_RT))]
  /\ UNCHANGED <<nrf_driver, ce, csn, spi, pc, call, trace, p0_arg>>

\* in RX mode the chip receives a packet on an enabled pipe
ChipReceive(p) ==
  /\ ce = HIGH
  /\ Bit(chip.reg[CONFIG], CONFIG_PRIM_RX) = 1
  /\ Bit(chip.reg[CONFIG], CONFIG_PWR_UP) = 1
  /\ Bit(chip.reg[EN_RXADDR], p) = 1
  /\ Len(chip.rx_fifo) < MaxRxFifo
  /\ chip' = [chip EXCEPT !.rx_fifo = Append(@, p),
                          !.rx_wid = Append(@, ONE_BYTE),
                          !.reg[STATUS] = BitOr(@, Shl(SET_BIT, STATUS_RX_DR))]
  /\ UNCHANGED <<nrf_driver, ce, csn, spi, pc, call, trace, p0_arg>>

\* the chip's own steps
ChipStep ==
  \/ ChipAck
  \/ ChipMaxRt
  \/ \E p \in Pipes : ChipReceive(p)

\* the failing-transfer sets of a call that is not under test
NoFail == {{}}

(***************************************************************************)
(* Spec: transmission.  An initialised or uninitialised device, the mode   *)
(* transitions, and nrf_driver_send_packet with failing transfers, against *)
(* a chip that acknowledges, gives up or receives.                         *)
(***************************************************************************)
Next ==
  \/ \E cfg \in {DefaultConfig}, F \in NoFail : Initialise(cfg, F)
  \/ \E F \in NoFail : StandbyMode(F)
  \/ \E F \in NoFail : ReceiverMode(F)
  \/ \E t \in PayloadArgs, F \in FailSets(3) : SendLoad(t, F)
  \/ \E F \in FailSets(4) : SendPoll(F)
  \/ ChipStep

Spec == Init /\ [][Next]_vars

\* a status poll none of whose transfers fails
SendPollOk == SendPoll({})

\* the chip ends the transmission it has started
ChipEnds == ChipAck \/ ChipMaxRt

(***************************************************************************)
(* FairSpec: transmission with the scheduling the driver relies on.  The   *)
(* steps of Spec that bear on a transmission (packets arrive on pipe 0     *)
(* only, and RX mode is left through nrf_driver_send_packet itself); the   *)
(* chip ends every transmission it starts with TX_DS or MAX_RT (the        *)
(* hardware's retry budget is finite), and the busy-wait loop of           *)
(* nrf_driver_send_packet keeps running and its transfers do not fail      *)
(* forever.                                                                *)
(***************************************************************************)
NextFair ==
  \/ \E cfg \in {DefaultConfig}, F \in NoFail : Initialise(cfg, F)
  \/ \E F \in NoFail : ReceiverMode(F)
  \/ \E t \in PayloadArgs, F \in FailSets(3) : SendLoad(t, F)
  \/ \E F \in FailSets(4) : SendPoll(F)
  \/ ChipAck
  \/ ChipMaxRt
  \/ ChipReceive(DATA_PIPE_0)

FairSpec == Init /\ [][NextFair]_vars /\ WF_vars(ChipEnds) /\ WF_vars(SendPollOk)

(***************************************************************************)
(* SpecInit: initialisation.  Every configuration argument, and every      *)
(* failing register write of nrf_driver_initialise for the configurations  *)
(* it accepts (it makes no transfer for the others), interleaved with the  *)
(* mode transitions and with packets received in RX mode.                  *)
(***************************************************************************)
ValidConfigArgs == {cfg \in ConfigArgs \ {NULL} : validate_config(cfg) = NRF_MNGR_OK}

\* the failures of a call that stops at its first failing transfer, as the
\* write loop of nrf_driver_initialise does: which of its n transfers fails
FirstFailure(n) == {{k} : k \in 1..n}

NextInit ==
  \/ \E cfg \in ConfigArgs, F \in NoFail : Initialise(cfg, F)
  \/ \E cfg \in ValidConfigArgs, F \in FirstFailure(InitLoopCount) : Initialise(cfg, F)
  \/ \E F \in NoFail : StandbyMode(F)
  \/ \E F \in NoFail : ReceiverMode(F)
  \/ \E p \in Pipes : ChipReceive(p)

SpecInit == Init /\ [][NextInit]_vars

(***************************************************************************)
(* SpecAddr: addressing.  The pipe-0 and transmit addresses under 5-byte   *)
(* (before initialisation) and 3-byte (after it) addresses, with failing   *)
(* address writes, acknowledged transmissions and returns to RX mode.      *)
(***************************************************************************)
NextAddr ==
  \/ \E cfg \in {SmallConfig}, F \in NoFail : Initialise(cfg, F)
  \/ \E b \in AddrArgs, F \in NoFail : TxDestination(b, F)
  \/ \E b \in AddrArgs, F \in FailSets(3) : RxDestination(DATA_PIPE_0, b, F)
  \/ \E F \in FailSets(3) : ReceiverMode(F)
  \/ \E t \in PayloadArgs, F \in NoFail : SendLoad(t, F)
  \/ \E F \in NoFail : SendPoll(F)
  \/ ChipAck

SpecAddr == Init /\ [][NextAddr]_vars


(***************************************************************************)
(* Vocabulary of the properties.                                           *)
(***************************************************************************)
\* the public call op has returned and nothing has been called since
Returned(op) == pc = "idle" /\ call.op = op

\* a W_REGISTER transaction of the trace, and the register it addresses
IsRegWrite(e) == e.ev = "XFER" /\ e.x >= W_REGISTER /\ e.x < 2 * W_REGISTER
IsWriteOf(e, reg) == e.ev = "XFER" /\ e.x = W_REGISTER + reg

\* an R_REGISTER transaction of the trace for register reg
IsReadOf(e, reg) == e.ev = "XFER" /\ e.x = R_REGISTER + reg

\* the interrupt bits of the chip's STATUS register
IrqBits == BitAnd(chip.reg[STATUS], STATUS_INTERRUPT_MASK)

\* the positions of tr at which P holds
Positions(tr, P(_)) == {i \in 1..Len(tr) : P(tr[i])}

(***************************************************************************)
(* C1.  Once nrf_driver_rx_destination(DATA_PIPE_0, A) has been called,    *)
(* every later nrf_driver_receiver_mode, after any nrf_driver_tx_destination*)
(* and nrf_driver_send_packet calls, writes A back to RX_ADDR_P0 over the  *)
(* configured address width, and when that transfer goes through the       *)
(* register holds A over that width.                                       *)
(***************************************************************************)
C1_Restores(tr) == SelectSeq(tr, LAMBDA e : IsWriteOf(e, RX_ADDR_P0))

C1_Pipe0Restored ==
  (Returned("receiver_mode") /\ p0_arg # NoAddr) =>
    LET w == nrf_driver.address_width_bytes
        r == C1_Restores(trace)
    IN  /\ Len(r) = 1
        /\ r[1].data = Take(p0_arg, w)
        /\ r[1].ok => Take(chip.addr[RX_ADDR_P0], w) = Take(p0_arg, w)

\* receiver_mode has restored A over a 3-byte width after tx_destination(B)
\* had overwritten RX_ADDR_P0 and TX_ADDR
C1_Witness ==
  /\ Returned("receiver_mode")
  /\ p0_arg = AddrA
  /\ nrf_driver.address_width_bytes = 3
  /\ Take(chip.addr[TX_ADDR], 3) = Take(AddrB, 3)
  /\ Take(chip.addr[RX_ADDR_P0], 3) = Take(AddrA, 3)
  /\ Len(C1_Restores(trace)) = 1

(***************************************************************************)
(* C2.  In nrf_driver_send_packet a status poll that reports the           *)
(* data-received bit alone (RX_DR_ASSERTED), after a payload transfer that *)
(* succeeded, does not end the poll loop.                                  *)
(***************************************************************************)
C2_RxDrKeepsPolling ==
  (/\ call.op = "send_packet"
   /\ call.polls > 0
   /\ call.status = SPI_MNGR_OK
   /\ call.status_irq = RX_DR_ASSERTED) => pc = "polling"

(***************************************************************************)
(* C3.  nrf_driver_send_packet returns NRF_MNGR_OK if and only if the      *)
(* payload transfer succeeded and TX_DS was observed; otherwise ERROR.     *)
(***************************************************************************)
C3_SuccessIffAcked ==
  Returned("send_packet") =>
    /\ call.ret \in {NRF_MNGR_OK, ERROR}
    /\ call.ret = NRF_MNGR_OK <=>
         (call.status = SPI_MNGR_OK /\ call.status_irq = TX_DS_ASSERTED)

(***************************************************************************)
(* C4.  The value nrf_driver_send_packet returns when the payload went     *)
(* through and MAX_RT was observed differs from the value it returns when  *)
(* the payload transfer fails and no interrupt bit is found: the caller    *)
(* can tell exhausted retries from a transport failure.                    *)
(***************************************************************************)
C4_Distinguishable ==
  (/\ Returned("send_packet")
   /\ call.status = SPI_MNGR_OK
   /\ call.status_irq = MAX_RT_ASSERTED) =>
     call.ret # send_packet_result(ERROR, NONE_ASSERTED)

(***************************************************************************)
(* C5.  Whenever a public operation has returned, the tracked mode is      *)
(* RX_MODE if and only if CE is high and PRIM_RX is set in CONFIG.         *)
(***************************************************************************)
C5_ModeAgrees ==
  pc = "idle" =>
    (nrf_driver.mode = RX_MODE <=>
       (ce = HIGH /\ Bit(chip.reg[CONFIG], CONFIG_PRIM_RX) = 1))

(***************************************************************************)
(* C6.  When the payload transfer fails, nrf_driver_send_packet returns    *)
(* with its first status poll; and a send that polls while the chip is     *)
(* transmitting, or has raised TX_DS or MAX_RT, eventually returns.        *)
(***************************************************************************)
C6_ChipWillRaise ==
  \/ chip.tx_active
  \/ Bit(chip.reg[STATUS], STATUS_TX_DS) = 1
  \/ Bit(chip.reg[STATUS], STATUS_MAX_RT) = 1

C6_SendTerminates ==
  /\ []((call.op = "send_packet" /\ call.status = ERROR /\ call.polls > 0)
          => (pc = "idle" /\ call.polls = 1))
  /\ (pc = "polling" /\ C6_ChipWillRaise) ~> (pc = "idle")

\* a send that polled in vain, then saw the chip's bit and returned
C6_Witness ==
  /\ Returned("send_packet")
  /\ call.status = SPI_MNGR_OK
  /\ call.polls > 1
  /\ call.status_irq \in {TX_DS_ASSERTED, MAX_RT_ASSERTED}

(***************************************************************************)
(* C7.  When STATUS shows MAX_RT set and TX_DS clear at the first poll of  *)
(* nrf_driver_send_packet and the poll reads it, the function reads STATUS *)
(* exactly once, returns ERROR as the retries-exhausted outcome and does   *)
(* not poll again.                                                         *)
(***************************************************************************)
C7_StatusReads(tr) == SelectSeq(tr, LAMBDA e : IsReadOf(e, STATUS))

C7_OnePollOnMaxRt ==
  [][ (/\ pc = "polling"
       /\ call.polls = 0
       /\ Bit(chip.reg[STATUS], STATUS_MAX_RT) = 1
       /\ Bit(chip.reg[STATUS], STATUS_TX_DS) = 0
       /\ call'.polls = 1
       /\ \A i \in 1..Len(C7_StatusReads(trace')) : C7_StatusReads(trace')[i].ok)
      => (/\ pc' = "idle"
          /\ call'.status_irq = MAX_RT_ASSERTED
          /\ call'.ret = ERROR
          /\ Len(C7_StatusReads(trace')) = 1) ]_vars

\* a send that ended on MAX_RT with its first poll
C7_Witness ==
  /\ Returned("send_packet")
  /\ call.status = SPI_MNGR_OK
  /\ call.polls = 1
  /\ call.status_irq = MAX_RT_ASSERTED
  /\ Len(C7_StatusReads(trace)) = 1

(***************************************************************************)
(* C8.  A successful nrf_driver_initialise writes 0x70 to STATUS before it *)
(* flushes the FIFOs, and none of RX_DR, TX_DS, MAX_RT is set when it      *)
(* returns.                                                                *)
(***************************************************************************)
C8_InitClearsIrq ==
  (Returned("initialise") /\ call.ret # ERROR) =>
    /\ IrqBits = 0
    /\ \E i \in Positions(trace, LAMBDA e : IsWriteOf(e, STATUS)) :
         /\ trace[i].data = <<STATUS_INTERRUPT_MASK>>
         /\ \A j \in Positions(trace, LAMBDA e : e.ev = "XFER"
                                              /\ e.x \in {FLUSH_TX, FLUSH_RX}) :
              i < j

(***************************************************************************)
(* C9.  A successful nrf_driver_initialise issues the CONFIG power-up      *)
(* write first, the 5 ms oscillator delay right after it and before any    *)
(* other transaction, then EN_AA, SETUP_AW, SETUP_RETR, RF_CH, RF_SETUP,   *)
(* then FEATURE and DYNPD, and FLUSH_TX and FLUSH_RX after every register  *)
(* write.                                                                  *)
(***************************************************************************)
\* the SPI transactions and the oscillator delay of the trace, in order
C9_Commands(tr) ==
  SelectSeq(tr, LAMBDA e : e.ev = "XFER" \/ (e.ev = "SLEEP_MS" /\ e.x = 5))

\* the transactions of cmds that address one of the commands in order
C9_Listed(cmds, order) ==
  SelectSeq(cmds, LAMBDA e : e.ev = "XFER" /\ e.x \in {order[i] : i \in 1..Len(order)})

C9_InitOrder ==
  (Returned("initialise") /\ call.ret # ERROR) =>
    LET cmds  == C9_Commands(trace)
        order == << W_REGISTER + CONFIG, W_REGISTER + EN_AA, W_REGISTER + SETUP_AW,
                    W_REGISTER + SETUP_RETR, W_REGISTER + RF_CH,
                    W_REGISTER + RF_SETUP, W_REGISTER + FEATURE,
                    W_REGISTER + DYNPD, FLUSH_TX, FLUSH_RX >>
        listed == C9_Listed(cmds, order)
    IN  /\ Len(cmds) >= 2
        /\ IsWriteOf(cmds[1], CONFIG)
        /\ Bit(cmds[1].data[1], CONFIG_PWR_UP) = 1
        /\ cmds[2].ev = "SLEEP_MS"
        /\ Cardinality(Positions(cmds, LAMBDA e : e.ev = "SLEEP_MS")) = 1
        /\ [i \in 1..Len(listed) |-> listed[i].x] = order
        /\ \A i \in Positions(cmds, IsRegWrite) :
             \A j \in Positions(cmds, LAMBDA e : e.ev = "XFER"
                                             /\ e.x \in {FLUSH_TX, FLUSH_RX}) :
               i < j

\* a successful initialise with the 3-byte configuration
C9_Witness ==
  /\ Returned("initialise")
  /\ call.ret = SPI_MNGR_OK
  /\ call.arg.cfg = SmallConfig
  /\ Len(C9_Commands(trace)) = 11

(***************************************************************************)
(* C10.  nrf_driver_initialise(NULL) applies the default configuration:    *)
(* when none of its transfers fails it returns success and the chip holds  *)
(* channel 110, 1 Mbps, 0 dBm, 5-byte addresses, 500 us and 10 retries,    *)
(* dynamic payloads disabled.                                              *)
(***************************************************************************)
C10_NullAppliesDefault ==
  (/\ Returned("initialise")
   /\ call.arg.cfg = NULL
   /\ \A i \in 1..Len(trace) : trace[i].ok) =>
     /\ call.ret # ERROR
     /\ chip.reg[RF_CH] = 110
     /\ chip.reg[RF_SETUP] = BitOr(RF_DR_1MBPS, RF_PWR_0DBM)
     /\ chip.reg[SETUP_AW] = AW_5_BYTES
     /\ chip.reg[SETUP_RETR] = BitOr(ARD_500US, ARC_10RT)
     /\ chip.reg[DYNPD] = DYNPD_DISABLE


(***************************************************************************)
(* C11.  When the supplied configuration fails validation (channel 1),     *)
(* nrf_driver_initialise returns ERROR, issues no SPI transfer to the chip *)
(* (no register write, no FIFO flush) and leaves the cached configuration  *)
(* and the cached address width as they were before the call.              *)
(***************************************************************************)
C11_InvalidConfigNoEffect ==
  [][ (call'.op = "initialise" /\ call'.arg.cfg = BadConfig) =>
        /\ call'.ret = ERROR
        /\ \A i \in 1..Len(trace') : trace'[i].ev # "XFER"
        /\ nrf_driver'.user_config = nrf_driver.user_config
        /\ nrf_driver'.address_width_bytes = nrf_driver.address_width_bytes ]_vars

\* the invalid configuration was refused after the 3-byte configuration had
\* been cached
C11_Witness ==
  /\ Returned("initialise")
  /\ call.arg.cfg = BadConfig
  /\ call.ret = ERROR
  /\ nrf_driver.user_config = SmallConfig
  /\ nrf_driver.address_width_bytes = 3


(***************************************************************************)
(* validate_config as a function of its argument: the configuration is     *)
(* drawn member by member from legal values and their illegal neighbours.  *)
(***************************************************************************)
AddressWidthArgs == {0, AW_3_BYTES, AW_4_BYTES, AW_5_BYTES, 4}
ChannelArgs      == {1, 2, 110, 125, 126}
DataRateArgs     == {RF_DR_1MBPS, RF_DR_2MBPS, RF_DR_250KBPS, 40}
DynPayloadsArgs  == {DYNPD_DISABLE, DYNPD_ENABLE, 1}
PowerArgs        == {RF_PWR_NEG_18DBM, RF_PWR_NEG_12DBM, RF_PWR_NEG_6DBM, RF_PWR_0DBM, 8}
RetrCountArgs    == {ARC_10RT, ARC_15RT, 16}
RetrDelayArgs    == {ARD_250US, ARD_500US, ARD_750US, ARD_1000US, 64}

ConfigSpace ==
  [ address_width : AddressWidthArgs,
    dyn_payloads  : DynPayloadsArgs,
    retr_delay    : RetrDelayArgs,
    retr_count    : RetrCountArgs,
    data_rate     : DataRateArgs,
    power         : PowerArgs,
    channel       : ChannelArgs ]

InitValidate ==
  /\ nrf_driver = nrf_driver_init
  /\ chip = ChipReset
  /\ ce = LOW
  /\ csn = LOW
  /\ spi = FALSE
  /\ pc = "idle"
  /\ \E cfg \in ConfigSpace :
       call = [op |-> "input", arg |-> [NoArg EXCEPT !.cfg = cfg], ret |-> 0,
               status |-> 0, status_irq |-> 0, polls |-> 0, out |-> 0]
  /\ trace = <<>>
  /\ p0_arg = NoAddr

ValidateConfig ==
  /\ pc = "idle"
  /\ call.op = "input"
  /\ call' = [call EXCEPT !.op = "validate_config",
                          !.ret = validate_config(call.arg.cfg)]
  /\ UNCHANGED <<nrf_driver, chip, ce, csn, spi, pc, trace, p0_arg>>

NextValidate == ValidateConfig
SpecValidate == InitValidate /\ [][NextValidate]_vars

(***************************************************************************)
(* C12.  validate_config returns NRF_MNGR_OK exactly when all seven        *)
(* members are legal: address width 3, 4 or 5 bytes; channel 2..125; one   *)
(* of the three data rates; one of the two dynamic-payload enumerators;    *)
(* one of the four power levels; retransmit count at most 15; one of the   *)
(* four retransmit delays.  It returns ERROR otherwise.  The default       *)
(* configuration (channel 110) passes and the same with channel 1 fails.   *)
(***************************************************************************)
C12_SevenLegal(cfg) ==
  /\ cfg.address_width \in {AW_3_BYTES, AW_4_BYTES, AW_5_BYTES}
  /\ cfg.channel \in 2..125
  /\ cfg.data_rate \in {RF_DR_1MBPS, RF_DR_2MBPS, RF_DR_250KBPS}
  /\ cfg.dyn_payloads \in {DYNPD_ENABLE, DYNPD_DISABLE}
  /\ cfg.power \in {RF_PWR_NEG_18DBM, RF_PWR_NEG_12DBM, RF_PWR_NEG_6DBM, RF_PWR_0DBM}
  /\ cfg.retr_count \in 0..15
  /\ cfg.retr_delay \in {ARD_250US, ARD_500US, ARD_750US, ARD_1000US}

C12_ValidIffSevenLegal ==
  Returned("validate_config") =>
    /\ call.ret = (IF C12_SevenLegal(call.arg.cfg) THEN NRF_MNGR_OK ELSE ERROR)
    /\ call.arg.cfg = DefaultConfig => call.ret = NRF_MNGR_OK
    /\ call.arg.cfg = BadConfig => call.ret = ERROR

\* the default configuration has been validated and passed
C12_Witness ==
  /\ Returned("validate_config")
  /\ call.arg.cfg = DefaultConfig
  /\ call.arg.cfg.channel = 110
  /\ call.ret = NRF_MNGR_OK


(***************************************************************************)
(* The field setters, after a default initialisation.                      *)
(***************************************************************************)
\* a byte read through an integer cast to a pointer, from behind an array
\* or from an uninitialised buffer: any value
WildBytes == 0..255

RfChannel(channel, F) ==
  /\ pc = "idle"
  /\ \E m \in {nrf_driver_rf_channel(Machine(F, <<>>), channel)} :
         /\ Commit(m)
         /\ call' = CallRec("rf_channel", [NoArg EXCEPT !.val = <<channel>>], m)
  /\ UNCHANGED <<pc, p0_arg>>

AutoRetransmission(delay, count, wild, F) ==
  /\ pc = "idle"
  /\ \E m \in {nrf_driver_auto_retransmission(Machine(F, <<>>), delay, count, wild)} :
         /\ Commit(m)
         /\ call' = CallRec("auto_retransmission",
                            [NoArg EXCEPT !.val = <<delay, count>>], m)
  /\ UNCHANGED <<pc, p0_arg>>

RfDataRate(data_rate, F) ==
  /\ pc = "idle"
  /\ \E m \in {nrf_driver_rf_data_rate(Machine(F, <<>>), data_rate)} :
         /\ Commit(m)
         /\ call' = CallRec("rf_data_rate", [NoArg EXCEPT !.val = <<data_rate>>], m)
  /\ UNCHANGED <<pc, p0_arg>>

RfPower(rf_pwr, F) ==
  /\ pc = "idle"
  /\ \E m \in {nrf_driver_rf_power(Machine(F, <<>>), rf_pwr)} :
         /\ Commit(m)
         /\ call' = CallRec("rf_power", [NoArg EXCEPT !.val = <<rf_pwr>>], m)
  /\ UNCHANGED <<pc, p0_arg>>

NextSet ==
  \/ \E cfg \in {DefaultConfig}, F \in NoFail : Initialise(cfg, F)
  \/ \E channel \in ChannelArgs, F \in NoFail : RfChannel(channel, F)
  \/ \E data_rate \in DataRateArgs, F \in NoFail : RfDataRate(data_rate, F)
  \/ \E rf_pwr \in PowerArgs, F \in NoFail : RfPower(rf_pwr, F)

SpecSet == Init /\ [][NextSet]_vars

\* nrf_driver_auto_retransmission with every byte its stray pointer can find,
\* for a delay the function accepts and one it rejects
StrayDelayArgs == {ARD_500US, ARD_1000US}
StrayCountArgs == {ARC_10RT}

NextRetr ==
  \/ \E cfg \in {DefaultConfig}, F \in NoFail : Initialise(cfg, F)
  \/ \E delay \in StrayDelayArgs, count \in StrayCountArgs, wild \in WildBytes,
        F \in NoFail : AutoRetransmission(delay, count, wild, F)

SpecRetr == Init /\ [][NextRetr]_vars

\* the trace of the last call holds no W_REGISTER transaction
NoRegWrite == \A i \in 1..Len(trace) : ~IsRegWrite(trace[i])

\* validate_config's verdict on the default configuration with one change
AcceptedByValidate(cfg) == validate_config(cfg) = NRF_MNGR_OK

(***************************************************************************)
(* C13.  Each setter accepts a value exactly when validate_config accepts  *)
(* that value for the same member (channel 2..125; the three data rates;   *)
(* the four power levels including 0 dBm; count at most 15 and the four    *)
(* delays including 1000 us), and a rejected value writes no register.     *)
(* With no transfer failing, a setter accepts iff it does not return       *)
(* ERROR.                                                                  *)
(***************************************************************************)
C13_SettersAgreeWithValidate ==
  /\ Returned("rf_channel") =>
       /\ (call.ret # ERROR) <=>
            AcceptedByValidate([DefaultConfig EXCEPT !.channel = call.arg.val[1]])
       /\ call.ret = ERROR => NoRegWrite
  /\ Returned("rf_data_rate") =>
       /\ (call.ret # ERROR) <=>
            AcceptedByValidate([DefaultConfig EXCEPT !.data_rate = call.arg.val[1]])
       /\ call.ret = ERROR => NoRegWrite
  /\ Returned("rf_power") =>
       /\ (call.ret # ERROR) <=>
            AcceptedByValidate([DefaultConfig EXCEPT !.power = call.arg.val[1]])
       /\ call.ret = ERROR => NoRegWrite
  /\ Returned("auto_retransmission") =>
       /\ (call.ret # ERROR) <=>
            AcceptedByValidate([DefaultConfig EXCEPT !.retr_delay = call.arg.val[1],
                                                     !.retr_count = call.arg.val[2]])
       /\ call.ret = ERROR => NoRegWrite


(***************************************************************************)
(* C14.  After nrf_driver_initialise has returned success the device is in *)
(* Standby-I whatever its state before the call: CE is low, PWR_UP is set  *)
(* and PRIM_RX is clear in CONFIG, and the tracked mode is STANDBY_I.      *)
(***************************************************************************)
C14_InitLeavesStandbyI ==
  (Returned("initialise") /\ call.ret # ERROR) =>
    /\ ce = LOW
    /\ Bit(chip.reg[CONFIG], CONFIG_PWR_UP) = 1
    /\ Bit(chip.reg[CONFIG], CONFIG_PRIM_RX) = 0
    /\ nrf_driver.mode = STANDBY_I


(***************************************************************************)
(* C15.  nrf_driver_initialise sets EN_DPL in FEATURE only when the        *)
(* configuration asks for dynamic payloads: after a successful initialise  *)
(* with dyn_payloads = DYNPD_DISABLE no FEATURE write of the call carries  *)
(* EN_DPL and the bit is clear in the chip.                                *)
(***************************************************************************)
C15_DplOnlyIfRequested ==
  (Returned("initialise") /\ call.ret # ERROR
     /\ nrf_driver.user_config.dyn_payloads = DYNPD_DISABLE) =>
    /\ \A i \in 1..Len(trace) :
         (IsWriteOf(trace[i], FEATURE) /\ trace[i].ok) =>
           Bit(trace[i].data[1], FEATURE_EN_DPL) = 0
    /\ Bit(chip.reg[FEATURE], FEATURE_EN_DPL) = 0


(***************************************************************************)
(* The mode functions over a line whose transfers may fail.                *)
(***************************************************************************)
NextMode ==
  \/ \E cfg \in {DefaultConfig}, F \in NoFail : Initialise(cfg, F)
  \/ \E b \in AddrArgs, F \in NoFail : RxDestination(DATA_PIPE_0, b, F)
  \/ \E F \in FailSets(2) : StandbyMode(F)
  \/ \E F \in FailSets(3) : ReceiverMode(F)
  \/ \E p \in Pipes : ChipReceive(p)

SpecMode == Init /\ [][NextMode]_vars

\* the last call attempted a CONFIG write and the transfer failed
ConfigWriteFailed ==
  \E i \in 1..Len(trace) : IsWriteOf(trace[i], CONFIG) /\ ~trace[i].ok

(***************************************************************************)
(* C16.  When the CONFIG write fails during nrf_driver_standby_mode or     *)
(* nrf_driver_receiver_mode, the function returns ERROR, not a success     *)
(* status.                                                                 *)
(***************************************************************************)
C16_ConfigWriteFailureReported ==
  ((Returned("standby_mode") \/ Returned("receiver_mode")) /\ ConfigWriteFailed)
    => call.ret = ERROR


(***************************************************************************)
(* Reception: nrf_driver_is_packet and nrf_driver_read_packet.             *)
(***************************************************************************)
\* a caller's variable to receive the pipe number, and its value before
RxPNo == [null |-> FALSE]
RxPNoArgs == {NULL, RxPNo}
RxPNoBefore == 255

\* the caller's receive buffer before the call
RxPacketArgs == {<<7>>}

\* payload widths a corrupted RX FIFO entry reports
CorruptWidths == {33, 200}

\* the chip holds a received entry whose width is not a payload width
ChipReceiveCorrupt(p, w) ==
  /\ ce = HIGH
  /\ Bit(chip.reg[CONFIG], CONFIG_PRIM_RX) = 1
  /\ Bit(chip.reg[CONFIG], CONFIG_PWR_UP) = 1
  /\ Bit(chip.reg[EN_RXADDR], p) = 1
  /\ Len(chip.rx_fifo) < MaxRxFifo
  /\ chip' = [chip EXCEPT !.rx_fifo = Append(@, p),
                          !.rx_wid = Append(@, w),
                          !.reg[STATUS] = BitOr(@, Shl(SET_BIT, STATUS_RX_DR))]
  /\ UNCHANGED <<nrf_driver, ce, csn, spi, pc, call, trace, p0_arg>>

IsPacket(rx_p_no, F) ==
  /\ pc = "idle"
  /\ \E m \in {nrf_driver_is_packet([Machine(F, <<>>) EXCEPT !.out = RxPNoBefore],
                                    rx_p_no)} :
         /\ Commit(m)
         /\ call' = CallRec("is_packet", [NoArg EXCEPT !.cfg = rx_p_no], m)
  /\ UNCHANGED <<pc, p0_arg>>

\* the uninitialised bytes a call can read: those of a buffer whose transfer
\* fails; the bytes of a buffer that is filled are not enumerated
UninitWidth(F) ==
  IF nrf_driver.user_config.dyn_payloads # 0 /\ 1 \in F THEN WildBytes ELSE {0}

UninitPayload(F, size) ==
  IF (IF nrf_driver.user_config.dyn_payloads # 0 THEN 2 ELSE 1) \in F
  THEN [1..size -> WildBytes] ELSE {[i \in 1..size |-> 0]}

ReadPacket(rx_packet, F) ==
  /\ pc = "idle"
  /\ \E width_uninit \in UninitWidth(F),
        payload_uninit \in UninitPayload(F, Len(rx_packet)) :
       \E m \in {nrf_driver_read_packet([Machine(F, <<>>) EXCEPT !.out = rx_packet],
                                        Len(rx_packet), width_uninit,
                                        payload_uninit)} :
         /\ Commit(m)
         /\ call' = CallRec("read_packet", [NoArg EXCEPT !.buf = rx_packet], m)
  /\ UNCHANGED <<pc, p0_arg>>

\* polling for packets on a device that also transmits
NextPoll ==
  \/ \E cfg \in {DefaultConfig}, F \in NoFail : Initialise(cfg, F)
  \/ \E F \in NoFail : ReceiverMode(F)
  \/ \E t \in PayloadArgs, F \in NoFail : SendLoad(t, F)
  \/ \E F \in NoFail : SendPoll(F)
  \/ ChipStep
  \/ \E rx_p_no \in RxPNoArgs, F \in NoFail : IsPacket(rx_p_no, F)

SpecPoll == Init /\ [][NextPoll]_vars

\* an nrf_driver_is_packet step none of whose transfers fails
IsPacketStep(rx_p_no) == IsPacket(rx_p_no, {})

(***************************************************************************)
(* C17.  nrf_driver_is_packet returns NRF_MNGR_OK exactly when RX_DR is    *)
(* set in the status value it reads, whatever TX_DS and MAX_RT are; on     *)
(* success it stores the 3-bit RX_P_NO field of that value through a       *)
(* non-null rx_p_no, and RX_DR is clear on the chip afterwards.            *)
(***************************************************************************)
C17_IsPacketIffRxDr ==
  [][ \A rx_p_no \in RxPNoArgs :
        IsPacketStep(rx_p_no) =>
          LET status == ChipStatus(chip)
          IN  /\ call'.ret = NRF_MNGR_OK <=> Bit(status, STATUS_RX_DR) = 1
              /\ (call'.ret = NRF_MNGR_OK /\ rx_p_no # NULL) =>
                   call'.out = BitAnd(status \div Pow2(STATUS_RX_P_NO),
                                      STATUS_RX_P_NO_MASK)
              /\ call'.ret = NRF_MNGR_OK =>
                   Bit(chip'.reg[STATUS], STATUS_RX_DR) = 0 ]_vars


\* reading packets, sound and corrupted, with and without dynamic payloads
NextRead ==
  \/ \E cfg \in {DefaultConfig, SmallConfig}, F \in NoFail : Initialise(cfg, F)
  \/ \E F \in NoFail : ReceiverMode(F)
  \/ \E p \in Pipes : ChipReceive(p)
  \/ \E p \in Pipes, w \in CorruptWidths : ChipReceiveCorrupt(p, w)
  \/ \E rx_p_no \in RxPNoArgs, F \in NoFail : IsPacket(rx_p_no, F)
  \/ \E rx_packet \in RxPacketArgs, F \in NoFail : ReadPacket(rx_packet, F)

SpecRead == Init /\ [][NextRead]_vars

\* nrf_driver_read_packet with a failing width query or payload read, and
\* every content of the uninitialised buffer the call then reads
NextUninit ==
  \/ \E cfg \in {DefaultConfig, SmallConfig}, F \in NoFail : Initialise(cfg, F)
  \/ \E rx_packet \in RxPacketArgs, F \in FirstFailure(2) : ReadPacket(rx_packet, F)

SpecUninit == Init /\ [][NextUninit]_vars

\* the transactions of a trace that carry the command cmd
CommandsOf(tr, cmd) == {i \in 1..Len(tr) : tr[i].ev = "XFER" /\ tr[i].x = cmd}

(***************************************************************************)
(* C18.  With dynamic payloads enabled, when the R_RX_PL_WID query goes    *)
(* through and reports a width above 32, nrf_driver_read_packet issues     *)
(* FLUSH_RX, returns ERROR, issues no R_RX_PAYLOAD transfer and leaves the *)
(* caller's buffer as it was.                                              *)
(***************************************************************************)
C18_CorruptWidthFlushed ==
  [][ \A rx_packet \in RxPacketArgs, F \in NoFail :
        ( /\ ReadPacket(rx_packet, F)
          /\ nrf_driver.user_config.dyn_payloads = DYNPD_ENABLE
          /\ 1 \notin F
          /\ RxPlWid(chip) > MAX_BYTES ) =>
          /\ call'.ret = ERROR
          /\ CommandsOf(trace', FLUSH_RX) # {}
          /\ CommandsOf(trace', R_RX_PAYLOAD) = {}
          /\ call'.out = rx_packet
          /\ chip'.rx_fifo = <<>> ]_vars

\* a read that queried the width, flushed the RX FIFO and gave up
C18_Witness ==
  /\ Returned("read_packet")
  /\ nrf_driver.user_config.dyn_payloads = DYNPD_ENABLE
  /\ \E i \in CommandsOf(trace, R_RX_PL_WID) : trace[i].ok
  /\ CommandsOf(trace, FLUSH_RX) # {}
  /\ CommandsOf(trace, R_RX_PAYLOAD) = {}
  /\ call.ret = ERROR
  /\ call.out = call.arg.buf


(***************************************************************************)
(* nrf_driver_payload_size over legal and illegal pipes and sizes, with    *)
(* failing transfers.                                                      *)
(***************************************************************************)
\* a data_pipe_t value past ALL_DATA_PIPES
UnknownPipe == 7
PipeArgs == {DATA_PIPE_0, DATA_PIPE_5, ALL_DATA_PIPES}
SizeArgs == {0, 1, 32, 33, 288}

PayloadSize(data_pipe, size, wild, F) ==
  /\ pc = "idle"
  /\ \E m \in {nrf_driver_payload_size(Machine(F, <<>>), data_pipe, size, wild)} :
         /\ Commit(m)
         /\ call' = CallRec("payload_size",
                            [NoArg EXCEPT !.pipe = data_pipe, !.val = <<size>>], m)
  /\ UNCHANGED <<pc, p0_arg>>

NextSize ==
  \/ \E cfg \in {DefaultConfig}, F \in NoFail : Initialise(cfg, F)
  \/ \E data_pipe \in PipeArgs, size \in SizeArgs, F \in FailSets(2) :
       PayloadSize(data_pipe, size, 0, F)

SpecSize == Init /\ [][NextSize]_vars

\* nrf_driver_payload_size for a pipe behind rx_pw_registers, with every
\* value the read can find there, as the first call of a run or the first
\* after initialisation: each such call may write any register
StraySizeArgs == {0, 5, 32, 33}

NextPipe ==
  \/ \E cfg \in {DefaultConfig}, F \in NoFail :
       call.op = "none" /\ Initialise(cfg, F)
  \/ \E size \in StraySizeArgs, wild \in WildBytes, F \in NoFail :
       call.op \in {"none", "initialise"} /\ PayloadSize(UnknownPipe, size, wild, F)

SpecPipe == Init /\ [][NextPipe]_vars

\* the register writes of the last call, in order, as <<register, byte>>
RECURSIVE RegWritesOf(_)
RegWritesOf(tr) ==
  IF tr = <<>> THEN <<>>
  ELSE (IF IsRegWrite(Head(tr))
        THEN << <<Head(tr).x - W_REGISTER, Head(tr).data, Head(tr).ok>> >>
        ELSE <<>>) \o RegWritesOf(Tail(tr))

\* the pipes whose RX_PW register a call for data_pipe sets
SelectedPipes(data_pipe) == IF data_pipe = ALL_DATA_PIPES THEN Pipes ELSE {data_pipe}

(***************************************************************************)
(* C19.  For a pipe DATA_PIPE_0..5 or ALL_DATA_PIPES: with size 0 or above *)
(* 32, nrf_driver_payload_size returns ERROR and writes no register; with  *)
(* size in 1..32 it writes only <<size>> to RX_PW registers of the         *)
(* selected pipes, in pipe order and up to the first failing write, and    *)
(* when no write fails it writes every selected register, does not return  *)
(* ERROR, and the registers hold size.                                     *)
(***************************************************************************)
C19_PayloadSize ==
  (Returned("payload_size") /\ call.arg.pipe \in Pipes \cup {ALL_DATA_PIPES}) =>
    LET size   == call.arg.val[1]
        writes == RegWritesOf(trace)
        sel    == SelectedPipes(call.arg.pipe)
        first  == IF call.arg.pipe = ALL_DATA_PIPES THEN 0 ELSE call.arg.pipe
    IN  IF size \in 1..32
        THEN /\ Len(writes) >= 1
             /\ Len(writes) <= Cardinality(sel)
             /\ \A i \in 1..Len(writes) :
                  /\ writes[i][1] = RX_PW_P0 + first + (i - 1)
                  /\ writes[i][2] = <<size>>
                  /\ ~writes[i][3] => i = Len(writes)
             /\ (\A i \in 1..Len(writes) : writes[i][3]) =>
                  /\ Len(writes) = Cardinality(sel)
                  /\ call.ret # ERROR
                  /\ \A p \in sel : chip.reg[RX_PW_P0 + p] = size
             /\ (\E i \in 1..Len(writes) : ~writes[i][3]) => call.ret = ERROR
        ELSE call.ret = ERROR /\ writes = <<>>

\* all six RX_PW registers were set to the largest legal size
C19_Witness ==
  /\ Returned("payload_size")
  /\ call.arg.pipe = ALL_DATA_PIPES
  /\ call.arg.val = <<32>>
  /\ call.ret = SPI_MNGR_OK
  /\ Len(RegWritesOf(trace)) = 6
  /\ \A p \in Pipes : chip.reg[RX_PW_P0 + p] = 32

(***************************************************************************)
(* C20.  nrf_driver_payload_size called with a pipe that is neither        *)
(* DATA_PIPE_0..DATA_PIPE_5 nor ALL_DATA_PIPES returns ERROR and writes no *)
(* register.                                                               *)
(***************************************************************************)
C20_UnknownPipeRejected ==
  (Returned("payload_size") /\ call.arg.pipe \notin Pipes \cup {ALL_DATA_PIPES}) =>
    /\ call.ret = ERROR
    /\ RegWritesOf(trace) = <<>>


(***************************************************************************)
(* nrf_driver_rx_destination for pipes 2..5, with one-byte and five-byte   *)
(* buffers, 5-byte (before initialisation) and 3-byte (after it) address   *)
(* widths, and an address write that may fail.                             *)
(***************************************************************************)
OneByteAddr == <<AddrA[1]>>
HighPipes == 2..5

NextHigh ==
  \/ \E cfg \in {SmallConfig}, F \in NoFail : Initialise(cfg, F)
  \/ \E data_pipe \in HighPipes, b \in {AddrA, OneByteAddr}, F \in FailSets(1) :
       RxDestination(data_pipe, b, F)

SpecHigh == Init /\ [][NextHigh]_vars

\* the writes of the last call to registers other than EN_RXADDR
RECURSIVE AddressWritesOf(_)
AddressWritesOf(ws) ==
  IF ws = <<>> THEN <<>>
  ELSE (IF Head(ws)[1] # EN_RXADDR THEN <<Head(ws)>> ELSE <<>>)
       \o AddressWritesOf(Tail(ws))

(***************************************************************************)
(* C21.  For every pipe 2..5 and every buffer, nrf_driver_rx_destination   *)
(* issues exactly one address write: one byte, the buffer's first, to that *)
(* pipe's RX_ADDR register, whatever the address width and the buffer's    *)
(* length; when the write goes through the register holds that byte.       *)
(***************************************************************************)
C21_HighPipesOneByte ==
  (Returned("rx_destination") /\ call.arg.pipe \in HighPipes) =>
    LET ws == AddressWritesOf(RegWritesOf(trace))
    IN  /\ Len(ws) = 1
        /\ ws[1][1] = RX_ADDR_P0 + call.arg.pipe
        /\ ws[1][2] = <<call.arg.buf[1]>>
        /\ ws[1][3] => chip.reg[RX_ADDR_P0 + call.arg.pipe] = call.arg.buf[1]

\* pipe 5 was given a five-byte buffer under a 3-byte address width
C21_Witness ==
  /\ Returned("rx_destination")
  /\ call.arg.pipe = DATA_PIPE_5
  /\ call.arg.buf = AddrA
  /\ nrf_driver.address_width_bytes = 3
  /\ call.ret = SPI_MNGR_OK
  /\ chip.reg[RX_ADDR_P5] = AddrA[1]


(***************************************************************************)
(* Address writes under each address width.  Every initialise of NextWidth *)
(* that passes validation also completes its register writes; in           *)
(* NextWidthFail one of its first three writes (CONFIG, EN_AA, SETUP_AW)   *)
(* may fail.                                                               *)
(***************************************************************************)
\* the default configuration with 4-byte addresses
MidConfig == [DefaultConfig EXCEPT !.address_width = AW_4_BYTES]
WidthConfigs == {SmallConfig, MidConfig, DefaultConfig}

NextWidth ==
  \/ \E cfg \in WidthConfigs, F \in NoFail : Initialise(cfg, F)
  \/ \E b \in {AddrA}, F \in FailSets(2) : TxDestination(b, F)
  \/ \E data_pipe \in {DATA_PIPE_0, DATA_PIPE_1}, b \in {AddrB}, F \in NoFail :
       RxDestination(data_pipe, b, F)
  \/ \E F \in NoFail : ReceiverMode(F)

SpecWidth == Init /\ [][NextWidth]_vars

\* every behaviour starts with a successful initialise; afterwards a further
\* initialise may fail at one of its first three writes
NextWidthFail ==
  \/ \E cfg \in WidthConfigs, F \in NoFail : Initialise(cfg, F)
  \/ \E cfg \in WidthConfigs, F \in FirstFailure(3) :
       call.op # "none" /\ Initialise(cfg, F)
  \/ \E b \in {AddrA}, F \in NoFail : call.op # "none" /\ TxDestination(b, F)
  \/ \E F \in NoFail : call.op # "none" /\ ReceiverMode(F)

SpecWidthFail == Init /\ [][NextWidthFail]_vars

\* the address width in bytes the chip is set to
ChipWidth == chip.reg[SETUP_AW] + 2

(***************************************************************************)
(* C22.  After a successful nrf_driver_initialise with address width w in  *)
(* {3, 4, 5}, SETUP_AW holds w - 2; and every write to RX_ADDR_P0,         *)
(* RX_ADDR_P1 or TX_ADDR made afterwards by nrf_driver_tx_destination,     *)
(* nrf_driver_rx_destination or nrf_driver_receiver_mode carries exactly   *)
(* w address bytes, w being the width SETUP_AW holds since the last        *)
(* successful initialise.                                                  *)
(***************************************************************************)
C22_WidthRoundTrip ==
  /\ (Returned("initialise") /\ call.ret # ERROR) =>
       /\ chip.reg[SETUP_AW] = call.arg.cfg.address_width
       /\ ChipWidth \in {3, 4, 5}
       /\ nrf_driver.address_width_bytes = ChipWidth
  /\ (pc = "idle" /\ call.op \in {"tx_destination", "rx_destination", "receiver_mode"}) =>
       \A i \in 1..Len(trace) :
         (\E r \in AddrRegs : IsWriteOf(trace[i], r)) => Len(trace[i].data) = ChipWidth


(***************************************************************************)
(* C23: a successful nrf_driver_tx_destination(A) leaves RX_ADDR_P0 and    *)
(* TX_ADDR holding the same address A over the configured address width;   *)
(* when the first of its two writes fails the second is not issued and the *)
(* call returns ERROR.                                                     *)
(***************************************************************************)
\* the first n bytes of an address register of the chip
ChipAddr(r, n) == Take(chip.addr[r], n)

C23_TxDestinationBoth ==
  Returned("tx_destination") =>
    LET ws == RegWritesOf(trace)
        w  == nrf_driver.address_width_bytes
        A  == Take(call.arg.buf, w)
    IN  /\ Len(ws) >= 1
        /\ ws[1][1] = RX_ADDR_P0 /\ ws[1][2] = A
        /\ call.ret # ERROR =>
             /\ Len(ws) = 2 /\ ws[2][1] = TX_ADDR /\ ws[2][2] = A
             /\ ChipAddr(RX_ADDR_P0, w) = A
             /\ ChipAddr(TX_ADDR, w) = A
        /\ ~ws[1][3] => Len(ws) = 1 /\ call.ret = ERROR
        /\ (\E i \in 1..Len(ws) : ~ws[i][3]) => call.ret = ERROR

\* a successful call under 4-byte addresses; C23_Failed is the call whose
\* first write fails
C23_Witness ==
  /\ Returned("tx_destination") /\ call.ret = SPI_MNGR_OK
  /\ nrf_driver.address_width_bytes = 4
  /\ ChipAddr(RX_ADDR_P0, 4) = Take(AddrA, 4)
  /\ ChipAddr(TX_ADDR, 4) = Take(AddrA, 4)

C23_Failed ==
  /\ Returned("tx_destination") /\ call.ret = ERROR
  /\ Len(RegWritesOf(trace)) = 1


(***************************************************************************)
(* SpecEnable: the receive pipes.  nrf_driver_rx_destination for a full-   *)
(* width pipe, a one-byte pipe and an unknown pipe, with any one of its    *)
(* three transfers failing.                                                *)
(***************************************************************************)
EnablePipes == {DATA_PIPE_0, DATA_PIPE_1, DATA_PIPE_5}

NextEnable ==
  \/ \E cfg \in {SmallConfig}, F \in NoFail : Initialise(cfg, F)
  \/ \E data_pipe \in EnablePipes \cup {UnknownPipe}, b \in {AddrA},
        F \in FailSets(3) : RxDestination(data_pipe, b, F)

SpecEnable == Init /\ [][NextEnable]_vars

\* an nrf_driver_rx_destination step for pipe p
RxDestStep(p) == \E b \in {AddrA}, F \in FailSets(3) : RxDestination(p, b, F)

\* the EN_RXADDR writes among the register writes ws
EnableWritesOf(ws) == SelectSeq(ws, LAMBDA w : w[1] = EN_RXADDR)

(***************************************************************************)
(* C24.  nrf_driver_rx_destination for a valid pipe p sets bit p of        *)
(* EN_RXADDR when that bit is clear on the chip, never changes the enable  *)
(* bit of another pipe, and writes EN_RXADDR not at all when bit p is      *)
(* already set.                                                            *)
(***************************************************************************)
C24_EnableFrame ==
  [][ \A p \in EnablePipes :
        RxDestStep(p) =>
          LET before == chip.reg[EN_RXADDR]
              after  == chip'.reg[EN_RXADDR]
              ews    == EnableWritesOf(RegWritesOf(trace'))
          IN  /\ \A q \in Pipes \ {p} : Bit(after, q) = Bit(before, q)
              /\ Bit(before, p) = 1 => ews = <<>>
              /\ Bit(before, p) = 0 =>
                   /\ Len(ews) = 1
                   /\ ews[1][3] => Bit(after, p) = 1 ]_vars


(***************************************************************************)
(* SpecCache: the cached pipe-0 address.  Every function the cache could   *)
(* be touched by: addresses set for pipe 0, other pipes and an unknown     *)
(* pipe, the transmit address, a transmission and the return to RX mode.   *)
(***************************************************************************)
NextCache ==
  \/ \E cfg \in {SmallConfig}, F \in NoFail : Initialise(cfg, F)
  \/ \E b \in AddrArgs, F \in FailSets(1) : RxDestination(DATA_PIPE_0, b, F)
  \/ \E data_pipe \in {DATA_PIPE_1, DATA_PIPE_5, UnknownPipe}, F \in NoFail :
       RxDestination(data_pipe, AddrB, F)
  \/ \E F \in FailSets(1) : TxDestination(AddrB, F)
  \/ \E F \in NoFail : ReceiverMode(F)
  \/ \E t \in PayloadArgs, F \in NoFail : SendLoad(t, F)
  \/ \E F \in NoFail : SendPoll(F)
  \/ ChipAck

SpecCache == Init /\ [][NextCache]_vars

\* nrf_driver.rx_addr_p0 and nrf_driver.is_rx_addr_p0
Pipe0Cache(drv) == <<drv.rx_addr_p0, drv.is_rx_addr_p0>>

(***************************************************************************)
(* C25.  The cached pipe-0 address and the is_rx_addr_p0 flag change only  *)
(* in a call of nrf_driver_rx_destination for DATA_PIPE_0: a call for      *)
(* another or an unknown pipe, nrf_driver_tx_destination,                  *)
(* nrf_driver_send_packet and nrf_driver_receiver_mode leave both as they  *)
(* were.                                                                   *)
(***************************************************************************)
C25_CacheOnlyByPipe0 ==
  [][ Pipe0Cache(nrf_driver') # Pipe0Cache(nrf_driver) =>
        /\ call'.op = "rx_destination"
        /\ call'.arg.pipe = DATA_PIPE_0 ]_vars

\* a call for pipe 1 has returned and the cache still holds what the call
\* for pipe 0 before it stored
C25_Witness ==
  /\ Returned("rx_destination") /\ call.arg.pipe = DATA_PIPE_1
  /\ nrf_driver.is_rx_addr_p0
  /\ nrf_driver.rx_addr_p0 = AddrA
  /\ chip.addr[RX_ADDR_P1] = AddrB


\* every transfer of the last call moved its bytes
AllTransfersOk(tr) == \A i \in 1..Len(tr) : tr[i].ev = "XFER" => tr[i].ok

\* an nrf_driver_receiver_mode step none of whose transfers fails
ReceiverModeStep == ReceiverMode({})

(***************************************************************************)
(* C26.  nrf_driver_receiver_mode called a second time, directly after a   *)
(* call of it whose transfers all succeeded, changes nothing: the chip     *)
(* (CONFIG and RX_ADDR_P0 among its registers), the CE line and the        *)
(* driver's tracked state are as the first call left them, and the second  *)
(* call reports success as well.                                           *)
(***************************************************************************)
C26_ReceiverModeIdempotent ==
  [][ (Returned("receiver_mode") /\ AllTransfersOk(trace) /\ ReceiverModeStep) =>
        /\ chip' = chip
        /\ ce' = ce /\ ce = HIGH
        /\ nrf_driver' = nrf_driver /\ nrf_driver.mode = RX_MODE
        /\ call.ret # ERROR /\ call'.ret # ERROR ]_vars

\* a call that found PRIM_RX set has returned: it wrote no CONFIG, restored
\* the cached pipe-0 address once more and left CE high
C26_Witness ==
  /\ Returned("receiver_mode") /\ AllTransfersOk(trace)
  /\ \A i \in 1..Len(trace) : ~IsWriteOf(trace[i], CONFIG)
  /\ \E i \in 1..Len(trace) : IsWriteOf(trace[i], RX_ADDR_P0)
  /\ Bit(chip.reg[CONFIG], CONFIG_PRIM_RX) = 1
  /\ nrf_driver.is_rx_addr_p0
  /\ ChipAddr(RX_ADDR_P0, nrf_driver.address_width_bytes)
       = Take(nrf_driver.rx_addr_p0, nrf_driver.address_width_bytes)
  /\ ce = HIGH /\ nrf_driver.mode = RX_MODE


\* a transaction of r_register_byte: a register address followed by NOP
IsRegRead(e) == e.ev = "XFER" /\ e.x < W_REGISTER /\ e.data = <<NOP>>

(***************************************************************************)
(* C27.  When a register read of r_register_byte fails inside              *)
(* nrf_driver_receiver_mode, nrf_driver_standby_mode or                    *)
(* nrf_driver_rx_destination, the public function returns ERROR and issues *)
(* no further transfer: it does not go on with the value it did not read.  *)
(***************************************************************************)
C27_ReadFailureReturned ==
  (pc = "idle" /\ call.op \in {"receiver_mode", "standby_mode", "rx_destination"}) =>
    \A i \in 1..Len(trace) :
      (IsRegRead(trace[i]) /\ ~trace[i].ok) =>
        /\ call.ret = ERROR
        /\ \A j \in (i + 1)..Len(trace) : trace[j].ev # "XFER"


(***************************************************************************)
(* C28.  When the write of the address register in                         *)
(* nrf_driver_rx_destination fails, the call returns ERROR, whether or not *)
(* a write of EN_RXADDR follows and succeeds.                              *)
(***************************************************************************)
C28_AddressFailureReturned ==
  (Returned("rx_destination") /\ call.arg.pipe \in Pipes) =>
    LET ws == AddressWritesOf(RegWritesOf(trace))
    IN  (Len(ws) >= 1 /\ ~ws[1][3]) => call.ret = ERROR


(***************************************************************************)
(* SpecBus: every kind of SPI transaction.  Register reads and writes and  *)
(* the FIFO flushes of initialisation, the payload write of a              *)
(* transmission with its status polls (FLUSH_TX after MAX_RT), the width   *)
(* query and the payload read of a reception (FLUSH_RX after a corrupt     *)
(* width), with failing transfers.                                         *)
(***************************************************************************)
NextBus ==
  \/ \E user_pins \in PinArgs, baudrate_hz \in BaudrateArgs :
       Configure(user_pins, baudrate_hz)
  \/ \E cfg \in {SmallConfig}, F \in FirstFailure(2) \cup NoFail : Initialise(cfg, F)
  \/ \E F \in FailSets(1) : ReceiverMode(F)
  \/ \E t \in PayloadArgs, F \in FailSets(1) : SendLoad(t, F)
  \/ \E F \in FailSets(1) : SendPoll(F)
  \/ ChipAck
  \/ ChipMaxRt
  \/ ChipReceive(DATA_PIPE_0)
  \/ \E w \in {33} : ChipReceiveCorrupt(DATA_PIPE_0, w)
  \/ \E rx_packet \in RxPacketArgs, F \in NoFail : ReadPacket(rx_packet, F)

SpecBus == Init /\ [][NextBus]_vars

IsCsn(e, level) == e.ev = "CSN" /\ e.x = level

IsBusEvent(e) == e.ev \in {"XFER", "CSN"}

\* the transfers and the chip-select edges of a trace, in order; the 2 us
\* delays around a transfer are no bus events
BusEvents(tr) == SelectSeq(tr, IsBusEvent)

\* every transfer directly follows csn_put_low and is directly followed by
\* csn_put_high, and every csn_put_low is directly followed by a transfer
Bracketed(bus) ==
  \A i \in 1..Len(bus) :
    /\ bus[i].ev = "XFER" =>
         /\ i > 1 /\ IsCsn(bus[i - 1], LOW)
         /\ i < Len(bus) /\ IsCsn(bus[i + 1], HIGH)
    /\ IsCsn(bus[i], LOW) => i < Len(bus) /\ bus[i + 1].ev = "XFER"

(***************************************************************************)
(* C29.  Every SPI transaction of a call is bracketed by chip-select low   *)
(* and chip-select high: a transfer directly follows a falling edge and is *)
(* directly followed by a rising edge, and every falling edge opens such a *)
(* bracket (so no two transactions nest or overlap and chip-select is low  *)
(* only during a transaction); chip-select is high whenever a public       *)
(* function has returned, and between the polls of a transmission.         *)
(***************************************************************************)
C29_CsnBrackets ==
  /\ call.op # "none" => csn = HIGH
  /\ Bracketed(BusEvents(trace))

\* the part of C29 that nrf_driver_configure does not touch: the brackets,
\* and chip-select high after every call that made a transaction
CsnBracketsOfTransactions ==
  /\ Bracketed(BusEvents(trace))
  /\ Len(BusEvents(trace)) > 0 => csn = HIGH


\* the positions of the chip-enable edges to level in a trace
CeEdges(tr, level) == {i \in 1..Len(tr) : tr[i].ev = "CE" /\ tr[i].x = level}

\* the positions of the status polls in a trace
StatusPolls(tr) == {i \in 1..Len(tr) : IsReadOf(tr[i], STATUS)}

(***************************************************************************)
(* C30.  The steps of nrf_driver_send_packet come in this order: leaving   *)
(* RX mode (the CONFIG write that clears PRIM_RX, chip-enable low) is      *)
(* complete before the payload is transferred behind W_TX_PAYLOAD;         *)
(* chip-enable is driven high only after that transfer; chip-enable is     *)
(* driven low again before the first status poll.                          *)
(***************************************************************************)
C30_SendOrder ==
  call.op = "send_packet" =>
    LET load == CommandsOf(trace, W_TX_PAYLOAD)
        high == CeEdges(trace, HIGH)
        low  == CeEdges(trace, LOW)
        cfgw == {i \in 1..Len(trace) : IsWriteOf(trace[i], CONFIG)}
    IN  /\ Cardinality(load) = 1 /\ Cardinality(high) = 1
        /\ \A l \in load :
             /\ \A c \in cfgw : c < l /\ \E e \in low : c < e /\ e < l
             /\ \A h \in high :
                  /\ l < h
                  /\ \E e \in low : h < e /\ \A q \in StatusPolls(trace) : e < q


\* the source lines of the mode assignments a trace records
ModeWrites(tr) == {tr[i].data[1] : i \in {j \in 1..Len(tr) : tr[j].ev = "MODE"}}

\* the lines of nrf_driver_standby_mode and of nrf_driver_receiver_mode
ModeTransitionLines == (732..763) \cup (969..1010)

(***************************************************************************)
(* C31.  nrf_driver.mode is assigned only by statements of                 *)
(* nrf_driver_standby_mode and nrf_driver_receiver_mode: no other public   *)
(* function, nrf_driver_send_packet included, holds an assignment to it.   *)
(***************************************************************************)
C31_ModeOnlyByTransitions == ModeWrites(trace) \subseteq ModeTransitionLines


\* the data of the STATUS writes among the events of tr after position n
StatusWritesAfter(tr, n) ==
  LET ws == SelectSeq(RegWritesOf(SubSeq(tr, n + 1, Len(tr))),
                      LAMBDA w : w[1] = STATUS)
  IN  [i \in 1..Len(ws) |-> ws[i][2]]

\* one write of a single bit for every interrupt bit set in status, in the
\* order in which check_status_irq tests them
ExpectedStatusWrites(status) ==
  (IF Bit(status, STATUS_RX_DR) = 1 THEN << <<64>> >> ELSE <<>>)
  \o (IF Bit(status, STATUS_TX_DS) = 1 THEN << <<32>> >> ELSE <<>>)
  \o (IF Bit(status, STATUS_MAX_RT) = 1 THEN << <<16>> >> ELSE <<>>)

(***************************************************************************)
(* C32.  A status poll, of nrf_driver_is_packet or of the loop of          *)
(* nrf_driver_send_packet, writes to STATUS one byte with a single bit for *)
(* every interrupt bit set in the value it read, and nothing else; when    *)
(* none of the three bits is set it writes STATUS not at all.              *)
(***************************************************************************)
C32_PollWritesBackFound ==
  [][ /\ \A rx_p_no \in RxPNoArgs :
           IsPacketStep(rx_p_no) =>
             StatusWritesAfter(trace', 0) = ExpectedStatusWrites(ChipStatus(chip))
      /\ SendPollOk =>
           StatusWritesAfter(trace', Len(trace))
             = ExpectedStatusWrites(ChipStatus(chip)) ]_vars

\* a poll has found RX_DR and TX_DS together and cleared both, each with a
\* write of its own
C32_Witness ==
  /\ Returned("is_packet")
  /\ StatusWritesAfter(trace, 0) = << <<64>>, <<32>> >>
  /\ IrqBits = 0


(***************************************************************************)
(* C33.  When nrf_driver_auto_retransmission returns success, SETUP_RETR   *)
(* holds the byte (delay | count) of its arguments.                        *)
(***************************************************************************)
C33_SetupRetrHoldsArgs ==
  (Returned("auto_retransmission") /\ call.ret # ERROR) =>
    chip.reg[SETUP_RETR] = BitOr(call.arg.val[1], call.arg.val[2])


(***************************************************************************)
(* C34.  nrf_driver_send_packet reports success only for a TX_DS that the  *)
(* chip raised for the payload of this call: at a successful return the    *)
(* payload was transferred, the chip has ended its transmission and the    *)
(* acknowledged payload has left the TX FIFO.  A TX_DS left in STATUS by   *)
(* an earlier transmission does not make the call succeed.                 *)
(***************************************************************************)
C34_SuccessOnlyByOwnAck ==
  (Returned("send_packet") /\ call.ret = NRF_MNGR_OK) =>
    /\ CommandsOf(trace, W_TX_PAYLOAD) # {}
    /\ \A i \in CommandsOf(trace, W_TX_PAYLOAD) : trace[i].ok
    /\ ~chip.tx_active
    /\ chip.tx_fifo = 0


\* the SPI peripheral is initialised at position i of the trace of a call:
\* the call has initialised it and not de-initialised it since
SpiOnAt(tr, i) ==
  \E j \in 1..(i - 1) :
    /\ tr[j].ev = "SPI_INIT"
    /\ \A k \in (j + 1)..(i - 1) : tr[k].ev # "SPI_DEINIT"

(***************************************************************************)
(* C35.  Every SPI transaction of a public function happens while the      *)
(* function holds the SPI peripheral initialised, and the peripheral is    *)
(* de-initialised whenever a public function has returned, on its error    *)
(* paths as well.                                                          *)
(***************************************************************************)
C35_SpiBalanced ==
  /\ pc = "idle" => ~spi
  /\ \A i \in 1..Len(trace) : trace[i].ev = "XFER" => SpiOnAt(trace, i)


\* an nrf_driver_rx_destination step for pipe 0 whose address write may fail
RxDestPipe0Step ==
  \E b \in AddrArgs, F \in FailSets(1) : RxDestination(DATA_PIPE_0, b, F)

(***************************************************************************)
(* C36.  A call of nrf_driver_rx_destination for pipe 0 that returns ERROR *)
(* leaves the cached pipe-0 address and the is_rx_addr_p0 flag as they     *)
(* were, so that nrf_driver_receiver_mode cannot later write the address   *)
(* of the failed call to RX_ADDR_P0.                                       *)
(***************************************************************************)
C36_FailedCallLeavesCache ==
  [][ (RxDestPipe0Step /\ call'.ret = ERROR) =>
        Pipe0Cache(nrf_driver') = Pipe0Cache(nrf_driver) ]_vars


DynPayloadsEnable(F) ==
  /\ pc = "idle"
  /\ \E m \in {nrf_driver_dyn_payloads_enable(Machine(F, <<>>))} :
         /\ Commit(m)
         /\ call' = CallRec("dyn_payloads_enable", NoArg, m)
  /\ UNCHANGED <<pc, p0_arg>>

DynPayloadsDisable(F) ==
  /\ pc = "idle"
  /\ \E m \in {nrf_driver_dyn_payloads_disable(Machine(F, <<>>))} :
         /\ Commit(m)
         /\ call' = CallRec("dyn_payloads_disable", NoArg, m)
  /\ UNCHANGED <<pc, p0_arg>>

(***************************************************************************)
(* SpecDyn: dynamic payloads switched on and off after a successful        *)
(* initialisation, with any one of the three transfers of a switch         *)
(* failing, on a device that receives and reads packets.                   *)
(***************************************************************************)
NextDyn ==
  \/ \E cfg \in {DefaultConfig, SmallConfig}, F \in NoFail : Initialise(cfg, F)
  \/ \E F \in FailSets(3) : DynPayloadsEnable(F)
  \/ \E F \in FailSets(3) : DynPayloadsDisable(F)
  \/ \E F \in NoFail : ReceiverMode(F)
  \/ ChipReceive(DATA_PIPE_0)
  \/ \E rx_packet \in RxPacketArgs, F \in NoFail : ReadPacket(rx_packet, F)

SpecDyn == Init /\ [][NextDyn]_vars

\* dynamic payloads are on in the chip: EN_DPL in FEATURE and every pipe in
\* DYNPD
ChipDynPayloads ==
  /\ Bit(chip.reg[FEATURE], FEATURE_EN_DPL) = 1
  /\ chip.reg[DYNPD] = DYNPD_ENABLE

(***************************************************************************)
(* C37.  After a successful initialise and any calls of                    *)
(* nrf_driver_dyn_payloads_enable and nrf_driver_dyn_payloads_disable,     *)
(* failing register writes included, the cached dyn_payloads flag agrees   *)
(* with the chip: it is DYNPD_ENABLE exactly when EN_DPL is set in FEATURE *)
(* and DYNPD holds DYNPD_ENABLE.                                           *)
(***************************************************************************)
DynFlagAgrees ==
  nrf_driver.user_config.dyn_payloads = DYNPD_ENABLE <=> ChipDynPayloads

\* a switch of dynamic payloads, any one of its transfers failing
DynSwitchStep == \E F \in FailSets(3) : DynPayloadsEnable(F) \/ DynPayloadsDisable(F)

C37_DynFlagAgrees ==
  [][ /\ (\E cfg \in {DefaultConfig, SmallConfig} : Initialise(cfg, {})) =>
           (call'.ret # ERROR /\ DynFlagAgrees')
      /\ (DynFlagAgrees /\ DynSwitchStep) => DynFlagAgrees' ]_vars


\* the outcome with priority MAX_RT over TX_DS over RX_DR
PriorityOutcome(status) ==
  IF Bit(status, STATUS_MAX_RT) = 1 THEN MAX_RT_ASSERTED
  ELSE IF Bit(status, STATUS_TX_DS) = 1 THEN TX_DS_ASSERTED
  ELSE IF Bit(status, STATUS_RX_DR) = 1 THEN RX_DR_ASSERTED
  ELSE NONE_ASSERTED

(***************************************************************************)
(* C38.  For the status value a poll reads, check_status_irq reports one   *)
(* outcome, chosen with the priority MAX_RT over TX_DS over RX_DR, and     *)
(* NONE_ASSERTED only when the three interrupt bits are all clear.         *)
(***************************************************************************)
C38_IrqPriority ==
  [][ SendPollOk =>
        /\ call'.status_irq = PriorityOutcome(ChipStatus(chip))
        /\ call'.status_irq = NONE_ASSERTED <=>
             BitAnd(ChipStatus(chip), STATUS_INTERRUPT_MASK) = 0 ]_vars

\* a poll has found the three bits set together and reported MAX_RT
C38_Witness ==
  /\ call.op = "send_packet" /\ call.polls = 1
  /\ call.status_irq = MAX_RT_ASSERTED
  /\ StatusWritesAfter(trace, 0) = << <<64>>, <<32>>, <<16>> >>


(***************************************************************************)
(* FLUSH_TX on MAX_RT.  A status poll of nrf_driver_send_packet appends    *)
(* its events to the trace of the call; the first of them is the read of   *)
(* STATUS.  The poll observes MAX_RT when that read succeeds and the chip  *)
(* holds the bit.                                                          *)
(***************************************************************************)
PollEvents(old, new) == SubSeq(new, Len(old) + 1, Len(new))

ObservesMaxRt(ev, status) ==
  /\ ev # <<>>
  /\ \E i \in 1..Len(ev) :
       /\ ev[i].ev = "XFER" /\ ev[i].x = STATUS /\ ev[i].ok
       /\ \A j \in 1..(i - 1) : ev[j].ev # "XFER"
  /\ Bit(status, STATUS_MAX_RT) = 1

\* C39: whenever a status poll observes MAX_RT, FLUSH_TX is issued before
\* the poll returns and the TX FIFO is empty afterwards; a send that ends
\* in retries-exhausted leaves the TX FIFO empty, so the next send puts
\* only its own payload into the FIFO.
C39_FlushOnMaxRt ==
  [][ /\ (pc = "polling" /\ trace' # trace
            /\ ObservesMaxRt(PollEvents(trace, trace'), ChipStatus(chip))) =>
           /\ CommandsOf(PollEvents(trace, trace'), FLUSH_TX) # {}
           /\ chip'.tx_fifo = 0
           /\ ~chip'.tx_active
      /\ (pc = "polling" /\ call'.status_irq = MAX_RT_ASSERTED) =>
           chip'.tx_fifo = 0
      /\ (Returned("send_packet") /\ call.status_irq = MAX_RT_ASSERTED
            /\ pc' = "polling") =>
           chip'.tx_fifo <= 1 ]_vars

C39_Witness ==
  /\ Returned("send_packet")
  /\ call.status_irq = MAX_RT_ASSERTED
  /\ \E i \in CommandsOf(trace, W_TX_PAYLOAD) : trace[i].ok
  /\ CommandsOf(trace, FLUSH_TX) # {}
  /\ chip.tx_fifo = 0


(***************************************************************************)
(* SpecRf: the two RF_SETUP setters after construction or initialisation,  *)
(* with the read and the write of RF_SETUP failing or not.                 *)
(***************************************************************************)
NextRf ==
  \/ \E cfg \in {DefaultConfig, SmallConfig}, F \in NoFail : Initialise(cfg, F)
  \/ \E data_rate \in DataRateArgs, F \in FailSets(2) : RfDataRate(data_rate, F)
  \/ \E rf_pwr \in PowerArgs, F \in FailSets(2) : RfPower(rf_pwr, F)

SpecRf == Init /\ [][NextRf]_vars

\* a call of the setter with a legal argument
RfDataRateStep ==
  \E data_rate \in {RF_DR_1MBPS, RF_DR_2MBPS, RF_DR_250KBPS}, F \in FailSets(2) :
    RfDataRate(data_rate, F)

RfPowerStep ==
  \E rf_pwr \in {RF_PWR_NEG_18DBM, RF_PWR_NEG_12DBM, RF_PWR_NEG_6DBM, RF_PWR_0DBM},
     F \in FailSets(2) :
    RfPower(rf_pwr, F)

\* C40: for every prior RF_SETUP value and every legal argument,
\* nrf_driver_rf_data_rate leaves the power bits of RF_SETUP as they were
\* and nrf_driver_rf_power leaves the data-rate bits as they were.
C40_RfSetupFrame ==
  [][ /\ RfDataRateStep =>
           BitAnd(chip'.reg[RF_SETUP], RF_SETUP_RF_PWR_MASK)
             = BitAnd(chip.reg[RF_SETUP], RF_SETUP_RF_PWR_MASK)
      /\ RfPowerStep =>
           BitAnd(chip'.reg[RF_SETUP], RF_SETUP_RF_DR_MASK)
             = BitAnd(chip.reg[RF_SETUP], RF_SETUP_RF_DR_MASK) ]_vars

=============================================================================
